---- MODULE Spec2Model ----
(***************************************************************************)
(* Model of the session/credential layer and the scrape entry points of    *)
(* the Carfax vehicle-history scraper.                                     *)
(*                                                                         *)
(*   src/src/auth/tokens.py    TokenData, TokenManager                      *)
(*   src/src/auth/cookies.py   CookieManager                                *)
(*   src/src/auth/login.py     ensure_authenticated, AutoLogin              *)
(*   src/src/scraper/*.py      _validate_vin, get_report, scrape_report     *)
(*   src/src/main.py           _run_scraper                                 *)
(*                                                                         *)
(* Python's None is the empty tuple and an Optional value x is <<x>>, so    *)
(* that values of one field are always comparable.                         *)
(***************************************************************************)
EXTENDS Integers, Sequences, FiniteSets, TLC

VARIABLES
    now,            \* time.time(), whole seconds
    token_data,     \* TokenManager._token_data : None or <<TokenData>>
    tokens_file,    \* content of TokenManager.tokens_file on disk
    fs_mode,        \* behaviour of the file system on a write
    tok_call,       \* the last TokenManager call: operation, argument, time, result
    tok_obs,        \* what a reader of the TokenManager properties last saw
    cookie_jar,     \* CookieManager.cookie_jar, in iteration order
    cookies_dict,   \* CookieManager._cookies_dict : name -> << >> or <<value>>
    cookies_file,   \* content of CookieManager.cookies_file on disk
    ck_call,        \* the last CookieManager call: operation, argument, time, result
    ck_obs,         \* what the last is_session_valid call returned
    vin_in,         \* the string handed to _validate_vin
    vin_res,        \* what the two validators returned for it
    entry_point,    \* the entry point that is running
    pc,             \* where the entry point stands
    vins,           \* the VINs handed to the entry point
    idx,            \* position of the report loop in vins
    reports,        \* the reports produced so far, in order
    calls,          \* per report: what the call that produced it did
    gate,           \* _run_scraper, API mode: what TokenManager.load returned
    auth,           \* what ensure_authenticated did and returned
    now_sub,        \* time.time(), the part of a second past now, in 1/(MaxSub+1) s
    td_obj,         \* a TokenData object
    td_res,         \* what was last computed from td_obj
    ex_in,          \* the document handed to an extractor
    ex_out,         \* what the extractors returned for it
    threads,        \* per thread: the TokenManager / CookieManager call it is in, and where
    observed        \* what a reader of the credentials sees at this instant

tokenVars == <<token_data, tokens_file, fs_mode, tok_call, tok_obs>>

cookieVars == <<cookie_jar, cookies_dict, cookies_file, ck_call, ck_obs>>

vinVars == <<vin_in, vin_res>>

runVars == <<entry_point, pc, vins, idx, reports, calls, gate, auth>>

tdVars == <<now_sub, td_obj, td_res>>

exVars == <<ex_in, ex_out>>

rfVars == <<threads, observed>>

vars == <<now, token_data, tokens_file, fs_mode, tok_call, tok_obs,
          cookie_jar, cookies_dict, cookies_file, ck_call, ck_obs,
          vin_in, vin_res, entry_point, pc, vins, idx, reports, calls, gate, auth,
          now_sub, td_obj, td_res, ex_in, ex_out, threads, observed>>

\* what an operation of one component leaves alone
notToken == <<cookieVars, vinVars, runVars, tdVars, exVars, rfVars>>

notCookie == <<tokenVars, vinVars, runVars, tdVars, exVars, rfVars>>

notVin == <<now, tokenVars, cookieVars, runVars, tdVars, exVars, rfVars>>

\* ------------------------------------------------------------------------
\* Bounds
\* ------------------------------------------------------------------------
MaxStart == 0       \* the clock is sampled at s + d, s in 0..MaxStart, d in Offsets
MaxGen == 1         \* distinct generations of credential values handed to set_tokens
MaxJar == 2         \* cookies the jar may hold
MaxPad == 1         \* blanks around a VIN
MaxVins == 2        \* VINs handed to one run
MaxSub == 1         \* the clock resolves 1/(MaxSub+1) of a second
MaxElems == 2       \* elements of one document
MaxIntDigits == 8   \* digits int() converts (sys.int_info.default_max_str_digits, scaled)

\* ------------------------------------------------------------------------
\* Optional values
\* ------------------------------------------------------------------------
None == << >>

Some(x) == <<x>>

IsNone(o) == Len(o) = 0

\* ------------------------------------------------------------------------
\* Clock
\* ------------------------------------------------------------------------
Offsets == {0, 1, 3299, 3300, 3301, 3600}

Instants == {s + d : s \in 0..MaxStart, d \in Offsets}

\* ------------------------------------------------------------------------
\* TokenData (src/src/auth/tokens.py)
\* ------------------------------------------------------------------------
EXPIRY_MARGIN == 300

DEFAULT_EXPIRES_IN == 86400

DEFAULT_TOKEN_TYPE == "Bearer"

DEFAULT_SCOPE == "openid profile email offline_access"

StrFields == {"access_token", "refresh_token", "id_token", "token_type", "scope"}

TokenFields == StrFields \cup {"expires_in", "created_at"}

\* dict.get(key, default): a key of a dict holds << >> when absent, <<v>> when present
DictGet(entry, default) == IF Len(entry) = 0 THEN default ELSE entry[1]

\* TokenData.from_dict at time t (t is what __post_init__ reads from time.time())
from_dict(data, t) ==
    [access_token  |-> DictGet(data.access_token, ""),
     refresh_token |-> DictGet(data.refresh_token, ""),
     id_token      |-> DictGet(data.id_token, ""),
     expires_in    |-> DictGet(data.expires_in, Some(DEFAULT_EXPIRES_IN)),
     token_type    |-> DictGet(data.token_type, DEFAULT_TOKEN_TYPE),
     scope         |-> DictGet(data.scope, DEFAULT_SCOPE),
     created_at    |-> IF IsNone(DictGet(data.created_at, None))
                       THEN Some(t) ELSE DictGet(data.created_at, None)]

to_dict(td) == [k \in TokenFields |-> Some(td[k])]

\* is_expired raises TypeError when expires_in is not a number (JSON null)
is_expired_raises(td) == ~IsNone(td.created_at) /\ IsNone(td.expires_in)

is_expired_strict(td, t) ==
    IF IsNone(td.created_at) THEN TRUE
    ELSE (t - td.created_at[1]) > (td.expires_in[1] - EXPIRY_MARGIN)

is_expired(td, t) ==
    IF IsNone(td.created_at) THEN TRUE
    ELSE (t - td.created_at[1]) >= (td.expires_in[1] - EXPIRY_MARGIN)

Max(a, b) == IF a >= b THEN a ELSE b

\* int(n / d): truncation toward zero
Trunc(n, d) == IF n >= 0 THEN n \div d ELSE -((-n) \div d)

\* TokenData.time_remaining at the instant t + sub/(MaxSub+1) seconds.
\* (is_expired compares the elapsed time with a whole number of seconds, so
\* the part of a second past t does not change its result.)
time_remaining_margin(td, t, sub) ==
    IF IsNone(td.created_at) THEN 0
    ELSE Max(0, Trunc((td.expires_in[1] - EXPIRY_MARGIN - (t - td.created_at[1]))
                          * (MaxSub + 1) - sub,
                      MaxSub + 1))

time_remaining(td, t, sub) ==
    IF IsNone(td.created_at) THEN 0
    ELSE Max(0, Trunc((td.expires_in[1] - (t - td.created_at[1])) * (MaxSub + 1) - sub,
                      MaxSub + 1))

\* ------------------------------------------------------------------------
\* TokenManager (src/src/auth/tokens.py)
\* ------------------------------------------------------------------------
\* A dict handed to from_dict: every key is << >> (absent) or <<value>>
EmptyData == [k \in TokenFields |-> << >>]

GenStr(g) == CASE g = 0 -> "v0" [] g = 1 -> "v1" [] g = 2 -> "v2" [] OTHER -> "v3"

\* the key sets tried for a dict: none, all, all but one key
KeySets ==
    {{}, TokenFields} \cup {TokenFields \ {k} : k \in TokenFields}

MkData(K, g, e, c) ==
    [k \in TokenFields |->
        IF k \notin K THEN << >>
        ELSE IF k = "expires_in" THEN Some(e)
        ELSE IF k = "created_at" THEN Some(c)
        ELSE Some(GenStr(g))]

\* the arguments set_tokens is called with
SetTokensInputs ==
    {MkData(K, g, Some(e), Some(0)) : K \in KeySets, g \in 1..MaxGen, e \in {3600}}

\* the contents the tokens file may have when the program starts
File(kind, data) == [kind |-> kind, data |-> data]

InitialTokenFiles ==
    {File(k, EmptyData) : k \in {"missing", "unreadable", "malformed", "nonobject"}}
    \cup {File("json", d) : d \in
            {EmptyData,
             MkData(TokenFields, 0, Some(3600), Some(0)),
             MkData(TokenFields, 0, Some(300), Some(0)),
             MkData(TokenFields, 0, None, Some(0)),
             MkData(TokenFields \ {"created_at"}, 0, Some(301), Some(0)),
             MkData(TokenFields, 0, Some(3600), None)}}

FsModes == {"ok", "denied", "full"}

NoObs == [seen |-> FALSE, at |-> 0, is_valid |-> "None", is_expired |-> "None",
          access_token |-> None, refresh_token |-> None,
          auth_header |-> None, time_remaining |-> None]

NoCall == [op |-> "init", data |-> EmptyData, at |-> 0, ret |-> "None", replaced |-> FALSE]

\* TokenManager.is_valid as its caller sees it: "True", "False" or "raise"
is_valid(held, t) ==
    IF IsNone(held) THEN "False"
    ELSE IF is_expired_raises(held[1]) THEN "raise"
    ELSE IF is_expired(held[1], t) THEN "False" ELSE "True"

access_token_ignores_expiry(held, t) ==
    IF IsNone(held) THEN None ELSE Some(held[1].access_token)

\* TokenManager.access_token: <<token>> or None (the property raises with is_expired)
access_token(held, t) ==
    IF is_valid(held, t) = "True" THEN Some(held[1].access_token) ELSE None

\* TokenManager.refresh_token: <<token>> or None; the expiry is not looked at
refresh_token(held) == IF IsNone(held) THEN None ELSE Some(held[1].refresh_token)

\* TokenManager.get_auth_header: <<Authorization value>> or None for {}
get_auth_header(held, t) ==
    IF ~IsNone(access_token(held, t)) /\ access_token(held, t)[1] # ""
    THEN access_token(held, t) ELSE None

\* the file a write of td leaves behind, by file-system behaviour
WriteFile(mode, old, td) ==
    CASE mode = "ok"     -> File("json", to_dict(td))
      [] mode = "denied" -> old
      [] OTHER           -> File("malformed", EmptyData)

\* TokenManager.save: <<file after, return value>>
save_result(held, mode, old) ==
    IF IsNone(held) THEN <<old, "False">>
    ELSE <<WriteFile(mode, old, held[1]), IF mode = "ok" THEN "True" ELSE "False">>

\* TokenManager.load: <<_token_data after, return value>>
load_noexpiry(held, file, t) ==
    IF file.kind # "json" THEN <<held, "False">>
    ELSE <<Some(from_dict(file.data, t)),
           IF is_expired_raises(from_dict(file.data, t)) THEN "False" ELSE "True">>

load_result(held, file, t) ==
    IF file.kind # "json" THEN <<held, "False">>
    ELSE <<Some(from_dict(file.data, t)),
           IF is_expired_raises(from_dict(file.data, t)) THEN "False"
           ELSE IF is_expired(from_dict(file.data, t), t) THEN "False" ELSE "True">>

\* TokenManager.set_tokens: the credential held afterwards
set_tokens_merge(held, data, t) ==
    IF IsNone(held) THEN [from_dict(data, t) EXCEPT !.created_at = Some(t)]
    ELSE [k \in TokenFields |->
            IF k = "created_at" THEN Some(t)
            ELSE IF Len(data[k]) = 0 THEN held[1][k] ELSE data[k][1]]

set_tokens_result(held, data, t) == [from_dict(data, t) EXCEPT !.created_at = Some(t)]

\* ------------------------------------------------------------------------
\* CookieManager (src/src/auth/cookies.py)
\* ------------------------------------------------------------------------
AUTH_COOKIES ==
    <<"auth0.u0ERZlg3gng09tmcfxmz3YesyFWWmloM.is.authenticated",
      "_legacy_auth0.u0ERZlg3gng09tmcfxmz3YesyFWWmloM.is.authenticated">>

OTHER_COOKIE == "JSESSIONID"

CookieNames == {AUTH_COOKIES[1], AUTH_COOKIES[2], OTHER_COOKIE}

Domains == {".carfaxonline.com", "auth.carfax.com"}

\* str.lower on the cookie values in use
Lower(v) == CASE v = "TRUE" -> "true" [] v = "True" -> "true" [] OTHER -> v

\* http.cookiejar.Cookie as built by update_from_playwright and by MozillaCookieJar.load
Cookie(name, value, domain, path, expires) ==
    [name |-> name, value |-> value, domain |-> domain, path |-> path, expires |-> expires]

\* the (value, expires) pairs a cookie is given
CookieVariants ==
    {<<"true", Some(2)>>, <<"TRUE", None>>, <<"TRUE", Some(0)>>,
     <<"false", None>>, <<"false", Some(2)>>}

CookieUniverse ==
    {Cookie(AUTH_COOKIES[1], v[1], d, "/", v[2]) : d \in Domains, v \in CookieVariants}
    \cup {Cookie(AUTH_COOKIES[2], "TRUE", ".carfaxonline.com", "/", None),
          Cookie(AUTH_COOKIES[2], "true", ".carfaxonline.com", "/", Some(2)),
          Cookie(OTHER_COOKIE, "false", ".carfaxonline.com", "/", None)}

\* the instants at which the cookie session is looked at
CookieInstants == {1, 2}

SameKey(a, b) == a.domain = b.domain /\ a.path = b.path /\ a.name = b.name

\* the last of the positions S of a jar, 0 when there is none
LastIndex(S) == IF S = {} THEN 0 ELSE CHOOSE i \in S : \A j \in S : j <= i

InsertAfter(jar, i, c) ==
    [j \in 1..(Len(jar) + 1) |->
        IF j <= i THEN jar[j] ELSE IF j = i + 1 THEN c ELSE jar[j - 1]]

\* CookieJar.set_cookie: _cookies[domain][path][name] = cookie; iteration goes
\* domain by domain, path by path, name by name, each in insertion order
set_cookie(jar, c) ==
    LET same   == LastIndex({i \in 1..Len(jar) : SameKey(jar[i], c)})
        inPath == LastIndex({i \in 1..Len(jar) :
                                jar[i].domain = c.domain /\ jar[i].path = c.path})
        inDom  == LastIndex({i \in 1..Len(jar) : jar[i].domain = c.domain})
    IN  IF same > 0 THEN [jar EXCEPT ![same] = c]
        ELSE IF inPath > 0 THEN InsertAfter(jar, inPath, c)
        ELSE IF inDom > 0 THEN InsertAfter(jar, inDom, c)
        ELSE Append(jar, c)

RECURSIVE set_cookies(_, _)
set_cookies(jar, cs) ==
    IF Len(cs) = 0 THEN jar ELSE set_cookies(set_cookie(jar, Head(cs)), Tail(cs))

\* {cookie.name: cookie.value for cookie in self.cookie_jar}: the last cookie
\* of a name in iteration order gives the value
DictOf(jar) ==
    [n \in CookieNames |->
        LET named == LastIndex({i \in 1..Len(jar) : jar[i].name = n}) IN
        IF named = 0 THEN << >> ELSE Some(jar[named].value)]

EmptyDict == [n \in CookieNames |-> << >>]

\* CookieManager._check_expiry at time t
check_expiry(jar, cookie_name, t) ==
    \E i \in 1..Len(jar) :
        /\ jar[i].name = cookie_name
        /\ \/ IsNone(jar[i].expires)
           \/ jar[i].expires[1] = 0
           \/ jar[i].expires[1] > t

\* CookieManager.is_session_valid at time t
is_session_valid(dict, jar, t) ==
    /\ dict # EmptyDict
    /\ \E a \in 1..Len(AUTH_COOKIES) :
          /\ Len(dict[AUTH_COOKIES[a]]) > 0
          /\ Lower(dict[AUTH_COOKIES[a]][1]) = "true"
          /\ check_expiry(jar, AUTH_COOKIES[a], t)

\* the contents of the cookie file: kind "ok" parses to the cookies; kind
\* "badline" parses to the cookies and then meets a line that is not a cookie
CookieFile(kind, cookies) == [kind |-> kind, cookies |-> cookies]

InitialCookieFiles ==
    {CookieFile(k, << >>) : k \in {"missing", "unreadable", "badmagic", "ok"}}
    \cup {CookieFile("ok", <<c>>) : c \in
            {Cookie(AUTH_COOKIES[1], "true", ".carfaxonline.com", "/", Some(2)),
             Cookie(AUTH_COOKIES[1], "true", ".carfaxonline.com", "/", Some(1)),
             Cookie(AUTH_COOKIES[2], "TRUE", "auth.carfax.com", "/", None)}}
    \cup {CookieFile("badline",
            <<Cookie(AUTH_COOKIES[1], "false", ".carfaxonline.com", "/", None)>>)}

\* CookieManager.load: <<cookie_jar after, _cookies_dict after, return value>>
cookie_load_checks_expiry(jar, dict, file, t) ==
    IF file.kind \in {"missing", "unreadable", "badmagic"} THEN <<jar, dict, "False">>
    ELSE IF file.kind = "badline" THEN <<set_cookies(jar, file.cookies), dict, "False">>
    ELSE <<set_cookies(jar, file.cookies), DictOf(set_cookies(jar, file.cookies)),
           IF is_session_valid(DictOf(set_cookies(jar, file.cookies)),
                               set_cookies(jar, file.cookies), t)
           THEN "True" ELSE "False">>

cookie_load_result(jar, dict, file, t) ==
    IF file.kind \in {"missing", "unreadable", "badmagic"} THEN <<jar, dict, "False">>
    ELSE IF file.kind = "badline" THEN <<set_cookies(jar, file.cookies), dict, "False">>
    ELSE <<set_cookies(jar, file.cookies), DictOf(set_cookies(jar, file.cookies)), "True">>

\* the Cookie update_from_playwright builds from one Playwright cookie
FromPlaywright(cookie_data) ==
    Cookie(cookie_data.name, cookie_data.value, cookie_data.domain,
           cookie_data.path, cookie_data.expires)

RECURSIVE MapFromPlaywright(_)
MapFromPlaywright(cookies) ==
    IF Len(cookies) = 0 THEN << >>
    ELSE <<FromPlaywright(Head(cookies))>> \o MapFromPlaywright(Tail(cookies))

\* CookieManager.update_from_playwright: <<cookie_jar after, _cookies_dict after>>
update_from_playwright(jar, cookies) ==
    <<set_cookies(jar, MapFromPlaywright(cookies)),
      DictOf(set_cookies(jar, MapFromPlaywright(cookies)))>>

UpdateInputs == {<< >>} \cup {<<c>> : c \in CookieUniverse}

NoCookieCall == [op |-> "init", arg |-> << >>, at |-> 0, ret |-> "None"]

NoCookieObs == [seen |-> FALSE, at |-> 0, valid |-> FALSE]

CookieManager_load ==
    LET r == cookie_load_result(cookie_jar, cookies_dict, cookies_file, now) IN
    /\ Len(r[1]) <= MaxJar
    /\ cookie_jar' = r[1]
    /\ cookies_dict' = r[2]
    /\ ck_call' = [op |-> "load", arg |-> << >>, at |-> now, ret |-> r[3]]
    /\ ck_obs' = NoCookieObs
    /\ UNCHANGED <<now, cookies_file>>
    /\ UNCHANGED notCookie

CookieManager_update_from_playwright ==
    \E cookies \in UpdateInputs :
        LET r == update_from_playwright(cookie_jar, cookies) IN
        /\ Len(r[1]) <= MaxJar
        /\ cookie_jar' = r[1]
        /\ cookies_dict' = r[2]
        /\ ck_call' = [op |-> "update", arg |-> cookies, at |-> now, ret |-> "None"]
        /\ ck_obs' = NoCookieObs
        /\ UNCHANGED <<now, cookies_file>>
        /\ UNCHANGED notCookie

CookieManager_is_session_valid ==
    /\ ck_obs' = [seen |-> TRUE, at |-> now,
                  valid |-> is_session_valid(cookies_dict, cookie_jar, now)]
    /\ ck_obs' # ck_obs
    /\ UNCHANGED <<now, cookie_jar, cookies_dict, cookies_file, ck_call>>
    /\ UNCHANGED notCookie

CookieManager_clear ==
    /\ cookie_jar' = << >>
    /\ cookies_dict' = EmptyDict
    /\ ck_call' = [op |-> "clear", arg |-> << >>, at |-> now, ret |-> "None"]
    /\ ck_obs' = NoCookieObs
    /\ UNCHANGED <<now, cookies_file>>
    /\ UNCHANGED notCookie

CookieTick ==
    /\ \E t \in CookieInstants : t > now /\ now' = t
    /\ ck_obs' = NoCookieObs
    /\ UNCHANGED <<cookie_jar, cookies_dict, cookies_file, ck_call>>
    /\ UNCHANGED notCookie

\* the CookieManager as constructed
CookieIdle ==
    /\ cookie_jar = << >>
    /\ cookies_dict = EmptyDict
    /\ cookies_file = CookieFile("missing", << >>)
    /\ ck_call = NoCookieCall
    /\ ck_obs = NoCookieObs

NoAuth == [called |-> FALSE, session_valid |-> FALSE, login_calls |-> 0,
           browser |-> FALSE, ret |-> "None"]

NoTdResult == [op |-> "none", is_expired |-> "None", time_remaining |-> None,
               copy |-> None, copy_is_expired |-> "None"]

\* no TokenData object is under study
TokenDataIdle ==
    /\ now_sub = 0
    /\ td_obj = None
    /\ td_res = NoTdResult

\* a thread that is in no call
NoThread == [line |-> 0, data |-> EmptyData, cookies |-> << >>]

Threads == {"t1", "t2"}

NoRead == [seen |-> FALSE, token_data |-> None, is_valid |-> "None",
           cookie_jar |-> << >>, cookies_dict |-> EmptyDict, session_valid |-> FALSE]

\* no thread is in a call of the credential objects
RefreshIdle ==
    /\ threads = [w \in Threads |-> NoThread]
    /\ observed = NoRead

\* no document is under study
ExtractIdle ==
    /\ ex_in = None
    /\ ex_out = None

\* no entry point is running
RunIdle ==
    /\ entry_point = "none"
    /\ pc = "idle"
    /\ vins = << >>
    /\ idx = 1
    /\ reports = << >>
    /\ calls = << >>
    /\ gate = "None"
    /\ auth = NoAuth

\* the TokenManager as constructed
TokenIdle ==
    /\ token_data = None
    /\ tokens_file = File("missing", EmptyData)
    /\ fs_mode = "ok"
    /\ tok_call = NoCall
    /\ tok_obs = NoObs

\* ------------------------------------------------------------------------
\* Documents and the patterns run over them
\* (src/src/scraper/vehicle_history.py, src/src/scraper/full_report_scraper.py)
\* A document is the sequence of its elements; its html is the sequence of
\* the characters of their markup.  A pattern is matched on the characters,
\* as re.search does: at the leftmost position where it matches, each
\* repetition as long as it can be.
\* ------------------------------------------------------------------------
UPPERCASE == <<"A", "B", "C", "D", "E", "F", "G", "H", "I", "J", "K", "L", "M", "N", "O", "P", "Q", "R", "S", "T", "U", "V", "W", "X", "Y", "Z">>

LOWERCASE == <<"a", "b", "c", "d", "e", "f", "g", "h", "i", "j", "k", "l", "m", "n", "o", "p", "q", "r", "s", "t", "u", "v", "w", "x", "y", "z">>

DIGITS == <<"0", "1", "2", "3", "4", "5", "6", "7", "8", "9">>

Range(s) == {s[k] : k \in 1..Len(s)}

\* str.lower and str.upper, one character
LowerOf == [c \in Range(UPPERCASE) |->
               LOWERCASE[CHOOSE k \in 1..Len(UPPERCASE) : UPPERCASE[k] = c]]

UpperOf == [c \in Range(LOWERCASE) |->
               UPPERCASE[CHOOSE k \in 1..Len(LOWERCASE) : LOWERCASE[k] = c]]

LowerChar(c) == IF c \in DOMAIN LowerOf THEN LowerOf[c] ELSE c

lower(s) == [k \in 1..Len(s) |-> LowerChar(s[k])]

\* the character classes of the patterns: \d, [\d,], [A-Za-z], [A-Za-z0-9],
\* \w, \s, ["\s:>], [:\s]
Digit == Range(DIGITS)

DigitComma == Digit \cup {","}

Alpha == Range(UPPERCASE) \cup Range(LOWERCASE)

Alnum == Alpha \cup Digit

Word == Alnum \cup {"_"}

White == {" ", "\t", "\n"}

QuoteWhiteColonGt == White \cup {"\"", ":", ">"}

ColonWhite == White \cup {":"}

\* the index after the longest run of characters of chars that starts at i
RECURSIVE RunEnd(_, _, _)
RunEnd(s, i, chars) ==
    IF i <= Len(s) /\ s[i] \in chars THEN RunEnd(s, i + 1, chars) ELSE i

\* the literal lit stands at index i of s
At(s, i, lit) ==
    /\ i >= 1
    /\ i + Len(lit) - 1 <= Len(s)
    /\ (Len(lit) > 0 => s[i] = lit[1])
    /\ SubSeq(s, i, i + Len(lit) - 1) = lit

\* lit in s
Contains(s, lit) == \E i \in 1..(Len(s) - Len(lit) + 1) : At(s, i, lit)

\* the least member of a set of indices, 0 for the empty set
First(S) == IF S = {} THEN 0 ELSE CHOOSE i \in S : \A j \in S : i <= j

\* \s*w1\s*w2...\s*wn at index i: the index after it, 0 when it is not there
RECURSIVE WordsAt(_, _, _)
WordsAt(s, i, words) ==
    IF Len(words) = 0 THEN i
    ELSE LET j == RunEnd(s, i, White)
         IN  IF At(s, j, Head(words))
             THEN WordsAt(s, j + Len(Head(words)), Tail(words))
             ELSE 0

\* a matched group, by its first and last index; NoGroup when nothing matched
Group(from, to) == [from |-> from, to |-> to]

NoGroup == Group(0, 0)

Matched(g) == g.from > 0

GroupText(s, g) == SubSeq(s, g.from, g.to)

\* (C+)\s*w1\s*w2... searched in s, C a character class: group 1
RunThenWords(s, chars, words) ==
    LET i == First({k \in 1..Len(s) :
                      /\ s[k] \in chars
                      /\ WordsAt(s, RunEnd(s, k, chars), words) > 0})
    IN  IF i = 0 THEN NoGroup ELSE Group(i, RunEnd(s, i, chars) - 1)

\* w1\s*w2...\s*wn S* (C+) searched in s, S and C character classes (S* when
\* some is FALSE, S+ when it is TRUE): group 1
WordsThenRun(s, words, sep, some, chars) ==
    LET StartOf(k) == RunEnd(s, WordsAt(s, k, words), sep)
        i == First({k \in 1..Len(s) :
                      /\ s[k] \notin White
                      /\ WordsAt(s, k, words) > 0
                      /\ (some => StartOf(k) > WordsAt(s, k, words))
                      /\ StartOf(k) <= Len(s)
                      /\ s[StartOf(k)] \in chars})
    IN  IF i = 0 THEN NoGroup
        ELSE Group(StartOf(i), RunEnd(s, StartOf(i), chars) - 1)

\* int(): the value of a string of digits, ValueError for the empty string,
\* for another character, and for more digits than the interpreter converts
IntResult(exc, val) == [exc |-> exc, val |-> val]

RECURSIVE DigitsValue(_)
DigitsValue(s) ==
    IF Len(s) = 0 THEN 0
    ELSE 10 * DigitsValue(SubSeq(s, 1, Len(s) - 1))
         + (CHOOSE d \in 0..9 : DIGITS[d + 1] = s[Len(s)])

int(s) ==
    IF Len(s) = 0 \/ Len(s) > MaxIntDigits \/ \E k \in 1..Len(s) : s[k] \notin Digit
    THEN IntResult("ValueError", 0)
    ELSE IntResult("", DigitsValue(s))

\* str.replace(',', '')
RECURSIVE replace_commas(_)
replace_commas(s) ==
    IF Len(s) = 0 THEN << >>
    ELSE IF Head(s) = "," THEN replace_commas(Tail(s))
    ELSE <<Head(s)>> \o replace_commas(Tail(s))

\* str.split(): the words of s, in order
RECURSIVE split(_)
split(s) ==
    LET i == RunEnd(s, 1, White)
        j == First({k \in i..(Len(s) + 1) : k > Len(s) \/ s[k] \in White})
    IN  IF i > Len(s) THEN << >>
        ELSE <<SubSeq(s, i, j - 1)>> \o split(SubSeq(s, j, Len(s)))

\* " ".join(words)
RECURSIVE join(_)
join(words) ==
    IF Len(words) = 0 THEN << >>
    ELSE IF Len(words) = 1 THEN words[1]
    ELSE words[1] \o <<" ">> \o join(Tail(words))

\* ------------------------------------------------------------------------
\* _validate_vin (src/src/scraper/vehicle_history.py, src/src/scraper/api_scraper.py)
\* A string is the sequence of its characters.
\* ------------------------------------------------------------------------
VIN_LENGTH == 17

IsSpace(c) == c \in White

\* str.upper, one character
UpperChar(c) == IF c \in DOMAIN UpperOf THEN UpperOf[c] ELSE c

upper(s) == [k \in 1..Len(s) |-> UpperChar(s[k])]

RECURSIVE lstrip(_)
lstrip(s) == IF Len(s) > 0 /\ IsSpace(s[1]) THEN lstrip(Tail(s)) ELSE s

RECURSIVE rstrip(_)
rstrip(s) ==
    IF Len(s) > 0 /\ IsSpace(s[Len(s)]) THEN rstrip(SubSeq(s, 1, Len(s) - 1)) ELSE s

strip(s) == rstrip(lstrip(s))

HasAny(s, chars) == \E k \in 1..Len(s) : s[k] \in chars

\* VehicleHistoryScraper._validate_vin
validate_vin_noupper(vin) ==
    IF Len(vin) = 0 THEN FALSE
    ELSE IF Len(strip(vin)) # VIN_LENGTH THEN FALSE
    ELSE IF HasAny(strip(vin), {"I", "O", "Q"}) THEN FALSE
    ELSE TRUE

VehicleHistoryScraper_validate_vin(vin) ==
    IF Len(vin) = 0 THEN FALSE
    ELSE IF Len(upper(strip(vin))) # VIN_LENGTH THEN FALSE
    ELSE IF HasAny(upper(strip(vin)), {"I", "O", "Q"}) THEN FALSE
    ELSE TRUE

\* CarfaxAPIScraper._validate_vin
CarfaxAPIScraper_validate_vin(vin) ==
    IF Len(vin) = 0 THEN FALSE
    ELSE IF Len(upper(strip(vin))) # VIN_LENGTH THEN FALSE
    ELSE IF HasAny(upper(strip(vin)), {"I", "O", "Q"}) THEN FALSE
    ELSE TRUE

Repeat(c, n) == [k \in 1..n |-> c]

\* the strings tried: a run of n characters, one of them possibly replaced,
\* between up to MaxPad blanks on either side
VinBodies ==
    {Repeat("A", n) : n \in {0, 1, VIN_LENGTH - 1, VIN_LENGTH, VIN_LENGTH + 1}}
    \cup UNION {{[Repeat(b, n) EXCEPT ![p] = c] :
                    b \in {"1", "a"},
                    p \in {1, n},
                    c \in {"i", "I", "o", "O", "q", "Q", " ", "Z"}} :
                n \in {1, VIN_LENGTH - 1, VIN_LENGTH, VIN_LENGTH + 1}}

VinInputs ==
    {Repeat(" ", l) \o body \o Repeat(" ", r) :
        l \in 0..MaxPad, r \in 0..MaxPad, body \in VinBodies}

NoVinResult == [done |-> FALSE, browser |-> FALSE, api |-> FALSE]

VinIdle ==
    /\ vin_in = << >>
    /\ vin_res = NoVinResult

ValidateVin ==
    /\ ~vin_res.done
    /\ vin_res' = [done |-> TRUE,
                   browser |-> VehicleHistoryScraper_validate_vin(vin_in),
                   api |-> CarfaxAPIScraper_validate_vin(vin_in)]
    /\ UNCHANGED vin_in
    /\ UNCHANGED notVin

VinInit ==
    /\ now = 0
    /\ TokenIdle
    /\ CookieIdle
    /\ RunIdle
    /\ TokenDataIdle
    /\ ExtractIdle
    /\ RefreshIdle
    /\ vin_in \in VinInputs
    /\ vin_res = NoVinResult

VinNext == ValidateVin

SpecVin == VinInit /\ [][VinNext]_vars

TokenManager_load ==
    /\ token_data' = load_result(token_data, tokens_file, now)[1]
    /\ tok_call' = [op |-> "load", data |-> EmptyData, at |-> now,
                    ret |-> load_result(token_data, tokens_file, now)[2],
                    replaced |-> FALSE]
    /\ tok_obs' = NoObs
    /\ UNCHANGED <<now, tokens_file, fs_mode>>
    /\ UNCHANGED notToken

TokenManager_save ==
    /\ tokens_file' = save_result(token_data, fs_mode, tokens_file)[1]
    /\ tok_call' = [op |-> "save", data |-> EmptyData, at |-> now,
                    ret |-> save_result(token_data, fs_mode, tokens_file)[2],
                    replaced |-> FALSE]
    /\ tok_obs' = NoObs
    /\ UNCHANGED <<now, token_data, fs_mode>>
    /\ UNCHANGED notToken

TokenManager_set_tokens ==
    \E data \in SetTokensInputs :
        LET new == set_tokens_result(token_data, data, now) IN
        /\ token_data' = Some(new)
        /\ tokens_file' = save_result(Some(new), fs_mode, tokens_file)[1]
        /\ tok_call' = [op |-> "set_tokens", data |-> data, at |-> now,
                        ret |-> save_result(Some(new), fs_mode, tokens_file)[2],
                        replaced |->
                            /\ ~IsNone(token_data)
                            /\ \E k \in StrFields \cup {"expires_in"} :
                                  Len(data[k]) = 0 /\ token_data[1][k] # new[k]]
        /\ tok_obs' = NoObs
        /\ UNCHANGED <<now, fs_mode>>
        /\ UNCHANGED notToken

\* a caller reads is_valid, access_token, refresh_token, get_auth_header and
\* time_remaining
TokenManager_read ==
    /\ tok_obs' = [seen |-> TRUE, at |-> now,
                   is_valid |-> is_valid(token_data, now),
                   is_expired |->
                       IF IsNone(token_data) THEN "None"
                       ELSE IF is_expired_raises(token_data[1]) THEN "raise"
                       ELSE IF is_expired(token_data[1], now) THEN "True" ELSE "False",
                   access_token |->
                       IF is_valid(token_data, now) = "raise" THEN None
                       ELSE access_token(token_data, now),
                   refresh_token |-> refresh_token(token_data),
                   auth_header |->
                       IF is_valid(token_data, now) = "raise" THEN None
                       ELSE get_auth_header(token_data, now),
                   time_remaining |->
                       IF IsNone(token_data) \/ is_valid(token_data, now) = "raise"
                       THEN None
                       ELSE Some(time_remaining(token_data[1], now, now_sub))]
    /\ tok_obs' # tok_obs
    /\ UNCHANGED <<now, token_data, tokens_file, fs_mode, tok_call>>
    /\ UNCHANGED notToken

TokenTick ==
    /\ \E t \in Instants : t > now /\ now' = t
    /\ tok_obs' = NoObs
    /\ UNCHANGED <<token_data, tokens_file, fs_mode, tok_call>>
    /\ UNCHANGED notToken

TokenInit ==
    /\ CookieIdle
    /\ VinIdle
    /\ RunIdle
    /\ TokenDataIdle
    /\ ExtractIdle
    /\ RefreshIdle
    /\ now = 0
    /\ token_data = None
    /\ tokens_file \in InitialTokenFiles
    /\ fs_mode \in FsModes
    /\ tok_call = NoCall
    /\ tok_obs = NoObs

TokenNext ==
    \/ TokenManager_load
    \/ TokenManager_save
    \/ TokenManager_set_tokens
    \/ TokenManager_read
    \/ TokenTick

CookieInit ==
    /\ now = 1
    /\ cookie_jar = << >>
    /\ cookies_dict = EmptyDict
    /\ cookies_file \in InitialCookieFiles
    /\ ck_call = NoCookieCall
    /\ ck_obs = NoCookieObs
    /\ TokenIdle
    /\ VinIdle
    /\ RunIdle
    /\ TokenDataIdle
    /\ ExtractIdle
    /\ RefreshIdle

CookieNext ==
    \/ CookieManager_load
    \/ CookieManager_update_from_playwright
    \/ CookieManager_is_session_valid
    \/ CookieManager_clear
    \/ CookieTick

SpecToken == TokenInit /\ [][TokenNext]_vars

SpecCookie == CookieInit /\ [][CookieNext]_vars

\* ------------------------------------------------------------------------
\* TokenData on its own (src/src/auth/tokens.py 18-75)
\* ------------------------------------------------------------------------
\* a TokenData object; created_at is None only when a caller reset it
TokenDataObject(g, e, c) ==
    [k \in TokenFields |->
        IF k = "expires_in" THEN e ELSE IF k = "created_at" THEN c ELSE GenStr(g)]

TokenDataObjects ==
    {TokenDataObject(g, e, c) :
        g \in 1..MaxGen, e \in {Some(300), Some(3600), None}, c \in {None, Some(0)}}

TokenDataSeconds ==
    {s + d : s \in 0..MaxStart, d \in {0, 299, 300, 3299, 3300, 3301, 3599, 3600, 3601}}

AsBool(b) == IF b THEN "True" ELSE "False"

\* the properties is_expired and time_remaining are read
TokenData_read ==
    /\ ~IsNone(td_obj)
    /\ td_res' = [NoTdResult EXCEPT
                     !.op = "read",
                     !.is_expired =
                         IF is_expired_raises(td_obj[1]) THEN "raise"
                         ELSE AsBool(is_expired(td_obj[1], now)),
                     !.time_remaining =
                         IF is_expired_raises(td_obj[1]) THEN None
                         ELSE Some(time_remaining(td_obj[1], now, now_sub))]
    /\ UNCHANGED <<now, now_sub, td_obj>>
    /\ UNCHANGED <<tokenVars, cookieVars, vinVars, runVars, exVars, rfVars>>

\* TokenData.from_dict(td_obj.to_dict()), and is_expired read on both objects
TokenData_round_trip ==
    /\ ~IsNone(td_obj)
    /\ LET copy == from_dict(to_dict(td_obj[1]), now) IN
       td_res' = [NoTdResult EXCEPT
                     !.op = "round_trip",
                     !.copy = Some(copy),
                     !.is_expired =
                         IF is_expired_raises(td_obj[1]) THEN "raise"
                         ELSE AsBool(is_expired(td_obj[1], now)),
                     !.copy_is_expired =
                         IF is_expired_raises(copy) THEN "raise"
                         ELSE AsBool(is_expired(copy, now))]
    /\ UNCHANGED <<now, now_sub, td_obj>>
    /\ UNCHANGED <<tokenVars, cookieVars, vinVars, runVars, exVars, rfVars>>

TokenDataTick ==
    /\ \E t \in TokenDataSeconds, sub \in 0..MaxSub :
          /\ t > now \/ (t = now /\ sub > now_sub)
          /\ now' = t
          /\ now_sub' = sub
    /\ td_res' = NoTdResult
    /\ UNCHANGED td_obj
    /\ UNCHANGED <<tokenVars, cookieVars, vinVars, runVars, exVars, rfVars>>

TokenDataInit ==
    /\ now = 0
    /\ now_sub = 0
    /\ td_obj \in {Some(o) : o \in TokenDataObjects}
    /\ td_res = NoTdResult
    /\ TokenIdle
    /\ CookieIdle
    /\ VinIdle
    /\ RunIdle
    /\ ExtractIdle
    /\ RefreshIdle

TokenDataNext ==
    \/ TokenData_read
    \/ TokenData_round_trip
    \/ TokenDataTick

SpecTokenData == TokenDataInit /\ [][TokenDataNext]_vars

\* ------------------------------------------------------------------------
\* VehicleReport (src/src/scraper/api_scraper.py, src/src/scraper/vehicle_history.py)
\* The error texts are ASCII renderings of the Arabic literals of the source.
\* ------------------------------------------------------------------------
ReportFields == {"year", "make", "model", "trim", "owners", "accidents",
                 "service_records", "mileage", "title_status"}

ERR_INVALID_VIN == "invalid VIN"

ERR_TOKEN_INVALID == "token invalid or expired"

ERR_TOKEN_REJECTED == "token expired - renew it"

ERR_VIN_NOT_FOUND == "VIN not found"

ERR_NOT_JSON == "response is not JSON"

ERR_TIMEOUT == "connection timed out"

ERR_PARSE == "parse error"

ERR_LOGIN_FAILED == "login failed"

ERR_SITE == "site error - the VIN may be invalid"

ERR_EXTRACT == "extraction error"

\* str(e) of an exception raised by the browser driver or the HTTP client
ExceptionTexts == {"connection reset", ""}

\* str(e) of the AttributeError of None.close()
ERR_NONE_CLOSE == "'NoneType' object has no attribute 'close'"

\* f"API error: {status}"
ApiError(status) ==
    CASE status = 405 -> "API error: 405"
      [] status = 500 -> "API error: 500"
      [] OTHER        -> "API error"

\* VehicleReport(vin=vin, error=error): every other field keeps its default.
\* raw_data is None for the empty dict; damage_reported exists in the API
\* variant only and stays FALSE in the browser variant.
VehicleReport(vin, error) ==
    [vin |-> vin, year |-> None, make |-> None, model |-> None, trim |-> None,
     owners |-> None, accidents |-> None, damage_reported |-> FALSE,
     service_records |-> None, mileage |-> None, title_status |-> None,
     raw_data |-> None, error |-> error]

\* ------------------------------------------------------------------------
\* CarfaxAPIScraper (src/src/scraper/api_scraper.py)
\* ------------------------------------------------------------------------
\* str() of the integers in use
IntStr(n) == CASE n = 2008 -> "2008" [] n = 108487 -> "108487" [] OTHER -> "0"

EmptyVehicle == [year |-> None, make |-> None, model |-> None, trim |-> None]

EmptySummary == [ownerCount |-> None, accidentCount |-> None,
                 damageReported |-> None, serviceRecordCount |-> None]

\* a decoded JSON body: a key is None (absent) or <<value>>; odometer and
\* title stand for their one key, lastReading and status
Payload(id, is_dict, vehicle, summary, odometer, title) ==
    [id |-> id, is_dict |-> is_dict, vehicle |-> vehicle, summary |-> summary,
     odometer |-> odometer, title |-> title]

PayloadFull ==
    Payload("full", TRUE,
            Some([year |-> Some(2008), make |-> Some("BMW"), model |-> Some("3"),
                  trim |-> Some("328XI")]),
            Some([ownerCount |-> Some(2), accidentCount |-> Some(0),
                  damageReported |-> Some(FALSE), serviceRecordCount |-> Some(5)]),
            Some(108487), Some("Clean"))

PayloadEmpty == Payload("empty", TRUE, None, None, None, None)

PayloadList == Payload("list", FALSE, None, None, None, None)

\* CarfaxAPIScraper._parse_report
parse_report(vin, data) ==
    IF ~data.is_dict
    THEN [VehicleReport(vin, Some(ERR_PARSE)) EXCEPT !.raw_data = Some(data.id)]
    ELSE LET vehicle == DictGet(data.vehicle, EmptyVehicle)
             summary == DictGet(data.summary, EmptySummary)
         IN [VehicleReport(vin, None) EXCEPT
                !.raw_data = Some(data.id),
                !.year = Some(IF IsNone(vehicle.year) THEN ""
                              ELSE IntStr(vehicle.year[1])),
                !.make = Some(DictGet(vehicle.make, "")),
                !.model = Some(DictGet(vehicle.model, "")),
                !.trim = Some(DictGet(vehicle.trim, "")),
                !.owners = summary.ownerCount,
                !.accidents = Some(DictGet(summary.accidentCount, 0)),
                !.damage_reported = DictGet(summary.damageReported, FALSE),
                !.service_records = summary.serviceRecordCount,
                !.mileage = IF IsNone(data.odometer) THEN None
                            ELSE Some(IntStr(data.odometer[1])),
                !.title_status = data.title]

\* what the HTTP client hands back: a response, a timeout or another exception
Response(status, json, payload) ==
    [kind |-> "response", status |-> status, json |-> json, payload |-> payload,
     text |-> ""]

HttpFailure(kind, text) ==
    [kind |-> kind, status |-> 0, json |-> FALSE, payload |-> PayloadEmpty,
     text |-> text]

\* no request was sent
NoRequest == HttpFailure("none", "")

\* the pacing delay: asyncio.sleep(random.uniform(MIN_DELAY, MAX_DELAY)), in
\* seconds (src/src/config.py)
MIN_DELAY == 2

MAX_DELAY == 5

\* what one call did besides computing its report: whether it launched a
\* browser, how many pages it navigated to, how many HTTP requests it sent
\* and what came back (get, post), when it ran, which exception of the page
\* driver or of the HTTP client ended it (failure, "" for none), whether it
\* reached its pacing sleep and for how long it slept, and how its
\* in-browser login went
Effects(launched, navs, http, at) ==
    [launched |-> launched, navs |-> navs, http |-> http, at |-> at,
     get |-> NoRequest, post |-> NoRequest, failure |-> "", slept |-> FALSE,
     delay |-> 0, login |-> "not_required"]

GetOutcomes ==
    {HttpFailure("timeout", "")}
    \cup {HttpFailure("exception", x) : x \in ExceptionTexts}
    \cup {Response(s, FALSE, PayloadEmpty) : s \in {200, 401, 404, 405, 500}}
    \cup {Response(200, TRUE, p) : p \in {PayloadFull, PayloadEmpty, PayloadList}}

PostOutcomes ==
    {HttpFailure("timeout", ""),
     Response(401, FALSE, PayloadEmpty), Response(404, FALSE, PayloadEmpty),
     Response(405, FALSE, PayloadEmpty), Response(500, FALSE, PayloadEmpty),
     Response(200, FALSE, PayloadEmpty), Response(200, TRUE, PayloadFull)}

\* get_report from the status checks on, for the response finally held
api_report_of(vin, r) ==
    IF r.kind = "timeout" THEN VehicleReport(vin, Some(ERR_TIMEOUT))
    ELSE IF r.kind = "exception" THEN VehicleReport(vin, Some(r.text))
    ELSE IF r.status = 401 THEN VehicleReport(vin, Some(ERR_TOKEN_REJECTED))
    ELSE IF r.status = 404 THEN VehicleReport(vin, Some(ERR_VIN_NOT_FOUND))
    ELSE IF r.status # 200 THEN VehicleReport(vin, Some(ApiError(r.status)))
    ELSE IF ~r.json THEN VehicleReport(vin, Some(ERR_NOT_JSON))
    ELSE parse_report(vin, r.payload)

api_fetch_posts_on_any_error(vin, t, get, post) ==
    LET posted == get.kind = "response" /\ get.status # 200
        final == IF posted THEN post ELSE get
    IN  <<api_report_of(vin, final),
          [Effects(FALSE, 0, IF posted THEN 2 ELSE 1, t) EXCEPT
              !.get = get,
              !.post = IF posted THEN post ELSE NoRequest,
              !.failure = IF final.kind = "response" THEN "" ELSE final.kind,
              !.slept = final.kind = "response" /\ final.status = 200 /\ final.json]>>

\* the try block of get_report: the GET, the POST when the GET is answered
\* 404 or 405, the status checks, _parse_report and then the pacing sleep
api_fetch(vin, t, get, post) ==
    LET posted == get.kind = "response" /\ get.status \in {404, 405}
        final == IF posted THEN post ELSE get
    IN  <<api_report_of(vin, final),
          [Effects(FALSE, 0, IF posted THEN 2 ELSE 1, t) EXCEPT
              !.get = get,
              !.post = IF posted THEN post ELSE NoRequest,
              !.failure = IF final.kind = "response" THEN "" ELSE final.kind,
              !.slept = final.kind = "response" /\ final.status = 200 /\ final.json]>>

\* CarfaxAPIScraper.get_report at time t, the token manager holding held and
\* the server answering get to the GET and post to the POST:
\* <<report, effects>>.  is_valid raising is the caller's case.
api_get_report_nogate(vin, held, t, get, post) ==
    IF ~CarfaxAPIScraper_validate_vin(vin)
    THEN <<VehicleReport(vin, Some(ERR_INVALID_VIN)), Effects(FALSE, 0, 0, t)>>
    ELSE api_fetch(vin, t, get, post)

CarfaxAPIScraper_get_report(vin, held, t, get, post) ==
    IF ~CarfaxAPIScraper_validate_vin(vin)
    THEN <<VehicleReport(vin, Some(ERR_INVALID_VIN)), Effects(FALSE, 0, 0, t)>>
    ELSE IF is_valid(held, t) # "True"
    THEN <<VehicleReport(vin, Some(ERR_TOKEN_INVALID)), Effects(FALSE, 0, 0, t)>>
    ELSE api_fetch(vin, t, get, post)

\* ------------------------------------------------------------------------
\* VehicleHistoryScraper (src/src/scraper/vehicle_history.py)
\* ------------------------------------------------------------------------
\* a fetched document, by what the extractors find in it
Doc(site_error, found, raises) ==
    [site_error |-> site_error, found |-> found, raises |-> raises]

NothingFound == [f \in ReportFields |-> None]

FoundAll ==
    [f \in ReportFields |->
        CASE f = "year" -> Some("2008") [] f = "make" -> Some("BMW")
          [] f = "model" -> Some("3") [] f = "trim" -> Some("SERIES 328XI")
          [] f = "owners" -> Some(2) [] f = "accidents" -> Some(0)
          [] f = "service_records" -> Some(5)
          [] f = "mileage" -> Some("108,487")
          [] OTHER -> Some("Clean")]

Docs == {Doc(FALSE, FoundAll, FALSE), Doc(FALSE, NothingFound, FALSE),
         Doc(TRUE, FoundAll, FALSE), Doc(FALSE, NothingFound, TRUE)}

\* VehicleHistoryScraper._extract_report_data
extract_report_data(vin, doc) ==
    IF doc.site_error THEN VehicleReport(vin, Some(ERR_SITE))
    ELSE IF doc.raises THEN VehicleReport(vin, Some(ERR_EXTRACT))
    ELSE [VehicleReport(vin, None) EXCEPT
             !.year = doc.found.year, !.make = doc.found.make,
             !.model = doc.found.model, !.trim = doc.found.trim,
             !.owners = doc.found.owners, !.accidents = doc.found.accidents,
             !.service_records = doc.found.service_records,
             !.mileage = doc.found.mileage,
             !.title_status = doc.found.title_status]

\* how one browser session goes: the launch fails ("launch_error"), the
\* first navigation fails ("goto_error"), a document is fetched after navs
\* navigations ("page"), or it is fetched and closing the browser then fails
\* ("close_error"); text is the text of the exception.  login tells how the
\* in-browser login went: the page did not ask for one ("not_required"), no
\* credentials are configured ("no_credentials"), the driver raised during
\* the login ("driver_error"), the login went through and the page shows a
\* logout link ("verified") or shows none ("unverified")
BrowserOutcome(kind, navs, doc, text, chrome_profile) ==
    [kind |-> kind, navs |-> navs, doc |-> doc, text |-> text,
     chrome_profile |-> chrome_profile, login |-> "not_required"]

WithLogin(out, login) == [out EXCEPT !.login = login]

BrowserOutcomes ==
    {BrowserOutcome("launch_error", 0, Doc(FALSE, NothingFound, FALSE), x, FALSE) :
        x \in ExceptionTexts}
    \cup {BrowserOutcome("goto_error", 1, Doc(FALSE, NothingFound, FALSE),
                         "connection reset", FALSE)}
    \cup {WithLogin(BrowserOutcome("page", 1, Doc(FALSE, FoundAll, FALSE), "", c),
                    "no_credentials") : c \in BOOLEAN}
    \cup {WithLogin(BrowserOutcome("page", 1, Doc(FALSE, FoundAll, FALSE), "", FALSE), l) :
            l \in {"driver_error", "no_form", "unverified", "verified"}}
    \cup {BrowserOutcome("page", 1, d, "", FALSE) : d \in Docs}
    \cup {BrowserOutcome("page", 2, Doc(FALSE, FoundAll, FALSE), "", FALSE)}
    \cup {BrowserOutcome("close_error", 1, Doc(FALSE, FoundAll, FALSE), x, FALSE) :
            x \in ExceptionTexts}

login_in_browser_verifies(login) == login = "verified"

\* VehicleHistoryScraper._login_in_browser: what it returns when the
\* credentials are missing, when the page driver raises outside the selector
\* loops, when no field of the form is found, and when the page after the
\* submission carries a logout marker or none
VehicleHistoryScraper_login_in_browser(login) ==
    CASE login = "no_credentials" -> FALSE
      [] login = "driver_error"   -> FALSE
      [] OTHER                    -> TRUE

\* get_report from the browser launch on; the pacing sleep is its last
\* statement before the return
browser_session(vin, out, t) ==
    CASE out.kind = "launch_error" ->
            <<VehicleReport(vin, Some(out.text)),
              [Effects(TRUE, 0, 0, t) EXCEPT !.failure = out.kind]>>
      [] out.kind = "goto_error" ->
            <<VehicleReport(vin, Some(out.text)),
              [Effects(TRUE, out.navs, 0, t) EXCEPT !.failure = out.kind]>>
      [] out.login # "not_required"
         /\ ~VehicleHistoryScraper_login_in_browser(out.login) ->
            <<VehicleReport(vin, Some(IF out.chrome_profile THEN ERR_NONE_CLOSE
                                      ELSE ERR_LOGIN_FAILED)),
              [Effects(TRUE, out.navs, 0, t) EXCEPT !.login = out.login]>>
      [] out.kind = "close_error" ->
            <<VehicleReport(vin, Some(out.text)),
              [Effects(TRUE, out.navs, 0, t) EXCEPT !.failure = out.kind,
                                                    !.login = out.login]>>
      [] OTHER ->
            <<extract_report_data(vin, out.doc),
              [Effects(TRUE, out.navs, 0, t) EXCEPT !.slept = TRUE,
                                                    !.login = out.login]>>

\* VehicleHistoryScraper.get_report: <<report, effects>>
browser_get_report_novalidate(vin, out, t) == browser_session(vin, out, t)

VehicleHistoryScraper_get_report(vin, out, t) ==
    IF ~VehicleHistoryScraper_validate_vin(vin)
    THEN <<VehicleReport(vin, Some(ERR_INVALID_VIN)), Effects(FALSE, 0, 0, t)>>
    ELSE browser_session(vin, out, t)

\* ------------------------------------------------------------------------
\* FullReportScraper (src/src/scraper/full_report_scraper.py)
\* ------------------------------------------------------------------------
\* FullCarfaxReport(vin=vin): the fields in use, at their defaults
FullCarfaxReport(vin) ==
    [vin |-> vin, year |-> "", make |-> "", model |-> "", trim |-> "",
     total_owners |-> 0, accidents_reported |-> 0, error |-> ""]

FullOutcomes ==
    {BrowserOutcome("launch_error", 0, Doc(FALSE, NothingFound, FALSE),
                    "connection reset", TRUE),
     BrowserOutcome("goto_error", 1, Doc(FALSE, NothingFound, FALSE),
                    "connection reset", TRUE),
     BrowserOutcome("page", 1, Doc(FALSE, FoundAll, FALSE), "", TRUE),
     BrowserOutcome("page", 1, Doc(FALSE, NothingFound, FALSE), "", TRUE),
     BrowserOutcome("close_error", 1, Doc(FALSE, FoundAll, FALSE),
                    "connection reset", TRUE)}

\* FullReportScraper._extract_full_report
extract_full_report(vin, doc) ==
    [FullCarfaxReport(vin) EXCEPT
        !.year = DictGet(doc.found.year, ""),
        !.make = DictGet(doc.found.make, ""),
        !.model = DictGet(doc.found.model, ""),
        !.trim = DictGet(doc.found.trim, ""),
        !.total_owners = DictGet(doc.found.owners, 0),
        !.accidents_reported = DictGet(doc.found.accidents, 0)]

\* FullReportScraper.scrape_report: <<report, effects>>
FullReportScraper_scrape_report(vin, out, t) ==
    CASE out.kind = "page" ->
            <<extract_full_report(vin, out.doc), Effects(TRUE, out.navs, 0, t)>>
      [] out.kind = "close_error" ->
            <<[extract_full_report(vin, out.doc) EXCEPT !.error = out.text],
              [Effects(TRUE, out.navs, 0, t) EXCEPT !.failure = out.kind]>>
      [] OTHER ->
            <<[FullCarfaxReport(vin) EXCEPT !.error = out.text],
              [Effects(TRUE, out.navs, 0, t) EXCEPT !.failure = out.kind]>>

\* ------------------------------------------------------------------------
\* ensure_authenticated, AutoLogin (src/src/auth/login.py)
\* ------------------------------------------------------------------------
\* the file CookieManager.save leaves behind, and its return value
cookie_save_result(jar, mode, old) ==
    CASE mode = "ok"     -> <<CookieFile("ok", jar), "True">>
      [] mode = "denied" -> <<old, "False">>
      [] OTHER           -> <<CookieFile("badmagic", << >>), "False">>

\* how one AutoLogin.login call goes: no credentials configured, the driver
\* raises, the form is not found or the login is not verified, the login is
\* verified and the context hands over its cookies, or it is verified and
\* reading the cookies raises
LoginOutcome(kind, cookies) == [kind |-> kind, cookies |-> cookies]

LoginOutcomes ==
    {LoginOutcome(k, << >>) : k \in {"no_credentials", "error", "rejected", "ok_unsaved"}}
    \cup {LoginOutcome("ok", <<c>>) : c \in
            {Cookie(AUTH_COOKIES[1], "true", ".carfaxonline.com", "/", None),
             Cookie(OTHER_COOKIE, "false", ".carfaxonline.com", "/", None)}}

\* AutoLogin.login with _save_session_cookies:
\* <<cookie_jar, _cookies_dict, cookies file, return value, browser launched>>
login_result(jar, dict, file, mode, out) ==
    CASE out.kind = "ok" ->
            <<update_from_playwright(jar, out.cookies)[1],
              update_from_playwright(jar, out.cookies)[2],
              cookie_save_result(update_from_playwright(jar, out.cookies)[1],
                                 mode, file)[1],
              "True", TRUE>>
      [] out.kind = "ok_unsaved"     -> <<jar, dict, file, "True", TRUE>>
      [] out.kind = "no_credentials" -> <<jar, dict, file, "False", FALSE>>
      [] OTHER                       -> <<jar, dict, file, "False", TRUE>>

Auth(session_valid, login_calls, browser, ret) ==
    [called |-> TRUE, session_valid |-> session_valid, login_calls |-> login_calls,
     browser |-> browser, ret |-> ret]

\* ensure_authenticated: <<cookie_jar, _cookies_dict, cookies file, auth>>
ensure_authenticated(jar, dict, file, mode, t, out) ==
    LET l == cookie_load_result(jar, dict, file, t)
        r == login_result(l[1], l[2], file, mode, out)
    IN  IF is_session_valid(l[2], l[1], t)
        THEN <<l[1], l[2], file, Auth(TRUE, 0, FALSE, "True")>>
        ELSE <<r[1], r[2], r[3], Auth(FALSE, 1, r[5], r[4])>>

\* ------------------------------------------------------------------------
\* The entry points (src/src/main.py _run_scraper, scrape_with_api,
\* scrape_multiple_vins, scrape_full_report)
\* ------------------------------------------------------------------------
StrOf17 == <<"1", "H", "G", "B", "H", "4", "1", "J", "X", "M", "N", "1", "0", "9",
             "1", "8", "6">>

\* a valid VIN, one with a lower-case o, one a character short
RunVins == {StrOf17, [StrOf17 EXCEPT ![17] = "o"], SubSeq(StrOf17, 1, 16)}

VinLists == UNION {[1..n -> RunVins] : n \in 1..MaxVins}

RunInstants == {1, 2}

ApiEntries == {"run_api", "scrape_with_api"}

BrowserEntries == {"run_browser", "scrape_multiple_vins"}

Entries == ApiEntries \cup BrowserEntries \cup {"scrape_full_report"}

RunTokenFiles ==
    {File("missing", EmptyData),
     File("json", MkData(TokenFields, 0, Some(302), Some(0))),
     File("json", MkData(TokenFields, 0, Some(300), Some(0))),
     File("json", MkData(TokenFields, 0, None, Some(0)))}

RunCookieFiles ==
    {CookieFile("missing", << >>),
     CookieFile("badmagic", << >>),
     CookieFile("ok", <<Cookie(AUTH_COOKIES[1], "true", ".carfaxonline.com", "/", Some(2))>>),
     CookieFile("ok", <<Cookie(AUTH_COOKIES[1], "false", ".carfaxonline.com", "/", None)>>)}

AfterReport == IF idx + 1 > Len(vins) THEN "done" ELSE "loop"

\* random.uniform(MIN_DELAY, MAX_DELAY): the delays drawn
Delays == {MIN_DELAY, MAX_DELAY}

\* a call that reached its pacing sleep slept for d seconds
Slept(call, d) == [call EXCEPT !.delay = IF call.slept THEN d ELSE 0]

\* _run_scraper, API mode, up to the report loop; scrape_with_api's caller
\* loading the tokens and going on whatever load returned
run_scraper_load_tokens ==
    /\ pc = "start"
    /\ entry_point \in ApiEntries
    /\ token_data' = load_result(token_data, tokens_file, now)[1]
    /\ gate' = load_result(token_data, tokens_file, now)[2]
    /\ pc' = IF entry_point = "run_api" /\ gate' = "False" THEN "done" ELSE "loop"
    /\ UNCHANGED <<now, tokens_file, fs_mode, tok_call, tok_obs>>
    /\ UNCHANGED <<cookieVars, vinVars>>
    /\ UNCHANGED <<entry_point, vins, idx, reports, calls, auth>>
    /\ UNCHANGED <<tdVars, exVars, rfVars>>

\* _run_scraper, browser mode, up to the report loop
run_scraper_ensure_authenticated ==
    /\ pc = "start"
    /\ entry_point = "run_browser"
    /\ \E out \in LoginOutcomes :
          LET r == ensure_authenticated(cookie_jar, cookies_dict, cookies_file,
                                        fs_mode, now, out) IN
          /\ cookie_jar' = r[1]
          /\ cookies_dict' = r[2]
          /\ cookies_file' = r[3]
          /\ auth' = r[4]
          /\ pc' = IF r[4].ret = "True" THEN "loop" ELSE "done"
    /\ UNCHANGED <<now, tokenVars, ck_call, ck_obs, vinVars>>
    /\ UNCHANGED <<entry_point, vins, idx, reports, calls, gate>>
    /\ UNCHANGED <<tdVars, exVars, rfVars>>

\* one round of CarfaxAPIScraper.get_reports; an exception of is_valid
\* leaves get_report and the loop
api_get_reports_step ==
    /\ pc = "loop"
    /\ entry_point \in ApiEntries
    /\ idx <= Len(vins)
    /\ IF CarfaxAPIScraper_validate_vin(vins[idx]) /\ is_valid(token_data, now) = "raise"
       THEN /\ pc' = "crashed"
            /\ UNCHANGED <<idx, reports, calls>>
       ELSE \E get \in GetOutcomes, post \in PostOutcomes, d \in Delays :
               LET r == CarfaxAPIScraper_get_report(vins[idx], token_data, now,
                                                    get, post) IN
               /\ reports' = Append(reports, r[1])
               /\ calls' = Append(calls, Slept(r[2], d))
               /\ idx' = idx + 1
               /\ pc' = AfterReport
    /\ UNCHANGED <<now, tokenVars, cookieVars, vinVars>>
    /\ UNCHANGED <<entry_point, vins, gate, auth>>
    /\ UNCHANGED <<tdVars, exVars, rfVars>>

\* one round of VehicleHistoryScraper.get_reports
browser_get_reports_step ==
    /\ pc = "loop"
    /\ entry_point \in BrowserEntries
    /\ idx <= Len(vins)
    /\ \E out \in BrowserOutcomes, d \in Delays :
          LET r == VehicleHistoryScraper_get_report(vins[idx], out, now) IN
          /\ reports' = Append(reports, r[1])
          /\ calls' = Append(calls, Slept(r[2], d))
    /\ idx' = idx + 1
    /\ pc' = AfterReport
    /\ UNCHANGED <<now, tokenVars, cookieVars, vinVars>>
    /\ UNCHANGED <<entry_point, vins, gate, auth>>
    /\ UNCHANGED <<tdVars, exVars, rfVars>>

\* scrape_full_report
scrape_full_report ==
    /\ pc = "loop"
    /\ entry_point = "scrape_full_report"
    /\ idx <= Len(vins)
    /\ \E out \in FullOutcomes :
          LET r == FullReportScraper_scrape_report(vins[idx], out, now) IN
          /\ reports' = Append(reports, r[1])
          /\ calls' = Append(calls, r[2])
    /\ idx' = idx + 1
    /\ pc' = AfterReport
    /\ UNCHANGED <<now, tokenVars, cookieVars, vinVars>>
    /\ UNCHANGED <<entry_point, vins, gate, auth>>
    /\ UNCHANGED <<tdVars, exVars, rfVars>>

\* time passes between two steps of a run
RunTick ==
    /\ pc \in {"start", "loop"}
    /\ \E t \in RunInstants : t > now /\ now' = t
    /\ UNCHANGED <<tokenVars, cookieVars, vinVars, runVars, tdVars, exVars, rfVars>>

RunInit ==
    /\ now = 1
    /\ VinIdle
    /\ TokenDataIdle
    /\ ExtractIdle
    /\ RefreshIdle
    /\ entry_point \in Entries
    /\ vins \in VinLists
    /\ entry_point = "scrape_full_report" => Len(vins) = 1
    /\ idx = 1
    /\ reports = << >>
    /\ calls = << >>
    /\ gate = "None"
    /\ auth = NoAuth
    /\ pc \in {"start", "loop"}
    /\ entry_point \in {"run_api", "run_browser"} => pc = "start"
    /\ entry_point \in {"scrape_multiple_vins", "scrape_full_report"} => pc = "loop"
    /\ token_data = None
    /\ tokens_file \in RunTokenFiles
    /\ entry_point \notin ApiEntries => tokens_file = File("missing", EmptyData)
    /\ fs_mode \in FsModes
    /\ entry_point # "run_browser" => fs_mode = "ok"
    /\ tok_call = NoCall
    /\ tok_obs = NoObs
    /\ cookie_jar = << >>
    /\ cookies_dict = EmptyDict
    /\ cookies_file \in RunCookieFiles
    /\ entry_point # "run_browser" => cookies_file = CookieFile("missing", << >>)
    /\ ck_call = NoCookieCall
    /\ ck_obs = NoCookieObs

RunNext ==
    \/ run_scraper_load_tokens
    \/ run_scraper_ensure_authenticated
    \/ api_get_reports_step
    \/ browser_get_reports_step
    \/ scrape_full_report
    \/ RunTick

SpecRun == RunInit /\ [][RunNext]_vars

\* an element of a document: a text node ("text"), <div class="attr">text</div>
\* ("div") or <a href="attr">text</a> ("a")
Element(kind, attr, text) == [kind |-> kind, attr |-> attr, text |-> text]

Markup(e) ==
    CASE e.kind = "div" -> <<"<", "d", "i", "v", " ", "c", "l", "a", "s", "s", "=", "\"">> \o e.attr \o <<"\"", ">">> \o e.text \o <<"<", "/", "d", "i", "v", ">">>
      [] e.kind = "a"   -> <<"<", "a", " ", "h", "r", "e", "f", "=", "\"">> \o e.attr \o <<"\"", ">">> \o e.text \o <<"<", "/", "a", ">">>
      [] OTHER          -> e.text

\* the page source: the markup of the elements, one to a line
RECURSIVE HtmlOf(_)
HtmlOf(doc) ==
    IF Len(doc) = 0 THEN << >>
    ELSE IF Len(doc) = 1 THEN Markup(doc[1])
    ELSE Markup(doc[1]) \o <<"\n">> \o HtmlOf(Tail(doc))

\* soup.select('[class*="part"]') and soup.select('.name') test one element
ClassContains(e, part) == e.kind = "div" /\ Contains(e.attr, part)

ClassIs(e, name) == e.kind = "div" /\ e.attr = name

\* what an extractor did: returned val, or raised exc
Return(val) == [exc |-> "", val |-> val]

Raise(exc) == [exc |-> exc, val |-> None]

\* of two groups, the one that starts first (the first one on a tie)
Leftmost(g, h) ==
    IF ~Matched(h) THEN g
    ELSE IF ~Matched(g) THEN h
    ELSE IF h.from < g.from THEN h ELSE g

\* w1\s*w2...\s*wn searched in s
WordsIn(s, words) ==
    \E k \in 1..Len(s) : s[k] \notin White /\ WordsAt(s, k, words) > 0

\* VehicleHistoryScraper._is_login_required
logged_in_indicators ==
    <<<<"s", "i", "g", "n", " ", "o", "u", "t">>, <<"l", "o", "g", "o", "u", "t", " ", "b", "u", "t", "t", "o", "n">>, <<"r", "u", "n", " ", "v", "i", "n">>, <<"v", "e", "h", "i", "c", "l", "e", " ", "h", "i", "s", "t", "o", "r", "y">>>>

is_login_required_ignores_logout(html) ==
    LET html_lower == lower(html)
    IN  IF Contains(html_lower, <<"d", "e", "a", "l", "e", "r", " ", "a", "c", "c", "o", "u", "n", "t", " ", "s", "i", "g", "n", " ", "i", "n">>) THEN TRUE
        ELSE IF Contains(html_lower, <<"h", "r", "e", "f", "=", "\"", "/", "l", "o", "g", "i", "n", "\"">>) THEN TRUE
        ELSE IF \/ Contains(html_lower, <<"l", "a", "n", "d", "i", "n", "g", "p", "a", "g", "e">>)
                \/ Contains(html_lower, <<"g", "e", "t", " ", "t", "h", "e", " ", "m", "o", "s", "t", " ", "i", "n", "f", "o", " ", "n", "o", "w">>) THEN TRUE
        ELSE FALSE

VehicleHistoryScraper_is_login_required(html) ==
    LET html_lower == lower(html)
    IN  IF Contains(html_lower, <<"d", "e", "a", "l", "e", "r", " ", "a", "c", "c", "o", "u", "n", "t", " ", "s", "i", "g", "n", " ", "i", "n">>) THEN TRUE
        ELSE IF /\ Contains(html_lower, <<"h", "r", "e", "f", "=", "\"", "/", "l", "o", "g", "i", "n", "\"">>)
                /\ ~Contains(html_lower, <<"l", "o", "g", "o", "u", "t">>) THEN TRUE
        ELSE IF \/ Contains(html_lower, <<"l", "a", "n", "d", "i", "n", "g", "p", "a", "g", "e">>)
                \/ Contains(html_lower, <<"g", "e", "t", " ", "t", "h", "e", " ", "m", "o", "s", "t", " ", "i", "n", "f", "o", " ", "n", "o", "w">>) THEN TRUE
        ELSE IF \E k \in 1..Len(logged_in_indicators) :
                    Contains(html_lower, logged_in_indicators[k]) THEN FALSE
        ELSE FALSE

\* VehicleHistoryScraper._extract_year_make_model
known_makes ==
    <<<<"H", "o", "n", "d", "a">>, <<"T", "o", "y", "o", "t", "a">>, <<"F", "o", "r", "d">>, <<"C", "h", "e", "v", "r", "o", "l", "e", "t">>, <<"C", "h", "e", "v", "y">>, <<"B", "M", "W">>,
      <<"M", "e", "r", "c", "e", "d", "e", "s">>, <<"A", "u", "d", "i">>, <<"V", "o", "l", "k", "s", "w", "a", "g", "e", "n">>, <<"V", "W">>, <<"N", "i", "s", "s", "a", "n">>, <<"H", "y", "u", "n", "d", "a", "i">>,
      <<"K", "i", "a">>, <<"M", "a", "z", "d", "a">>, <<"S", "u", "b", "a", "r", "u">>, <<"L", "e", "x", "u", "s">>, <<"A", "c", "u", "r", "a">>, <<"I", "n", "f", "i", "n", "i", "t", "i">>,
      <<"J", "e", "e", "p">>, <<"D", "o", "d", "g", "e">>, <<"R", "a", "m">>, <<"C", "h", "r", "y", "s", "l", "e", "r">>, <<"G", "M", "C">>, <<"C", "a", "d", "i", "l", "l", "a", "c">>,
      <<"B", "u", "i", "c", "k">>, <<"L", "i", "n", "c", "o", "l", "n">>, <<"V", "o", "l", "v", "o">>, <<"P", "o", "r", "s", "c", "h", "e">>, <<"T", "e", "s", "l", "a">>,
      <<"M", "i", "t", "s", "u", "b", "i", "s", "h", "i">>, <<"S", "u", "z", "u", "k", "i">>, <<"F", "i", "a", "t">>, <<"A", "l", "f", "a">>, <<"J", "a", "g", "u", "a", "r">>, <<"L", "a", "n", "d">>,
      <<"R", "a", "n", "g", "e">>, <<"M", "i", "n", "i">>, <<"S", "m", "a", "r", "t">>, <<"S", "c", "i", "o", "n">>, <<"S", "a", "t", "u", "r", "n">>, <<"P", "o", "n", "t", "i", "a", "c">>,
      <<"O", "l", "d", "s", "m", "o", "b", "i", "l", "e">>, <<"M", "e", "r", "c", "u", "r", "y">>, <<"H", "u", "m", "m", "e", "r">>, <<"S", "a", "a", "b">>, <<"I", "s", "u", "z", "u">>,
      <<"D", "a", "e", "w", "o", "o">>, <<"G", "e", "n", "e", "s", "i", "s">>, <<"P", "o", "l", "e", "s", "t", "a", "r">>>>

\* the dict returned: the keys it lacks read as None
YearMakeModel(year, make, model, trim) ==
    [year |-> year, make |-> make, model |-> model, trim |-> trim]

\* model and trim out of the text after the make: its first word, and its
\* other words joined by blanks (None when there is none)
ModelAndTrim(year, make, rest) ==
    YearMakeModel(Some(year), Some(make),
                  IF Len(rest) > 0 THEN Some(split(rest)[1]) ELSE None,
                  IF Len(split(rest)) > 1 THEN Some(join(Tail(split(rest))))
                  ELSE None)

IsTitleElement(e) ==
    \/ ClassIs(e, <<"v", "e", "h", "i", "c", "l", "e", "-", "t", "i", "t", "l", "e">>)
    \/ ClassIs(e, <<"v", "e", "h", "i", "c", "l", "e", "-", "h", "e", "a", "d", "e", "r">>)
    \/ ClassContains(e, <<"y", "e", "a", "r", "-", "m", "a", "k", "e", "-", "m", "o", "d", "e", "l">>)
    \/ ClassIs(e, <<"v", "h", "r", "-", "t", "i", "t", "l", "e">>)
    \/ ClassIs(e, <<"r", "e", "p", "o", "r", "t", "-", "t", "i", "t", "l", "e">>)

IsYearElement(e) == ClassContains(e, <<"y", "e", "a", "r">>) \/ ClassContains(e, <<"v", "e", "h", "i", "c", "l", "e">>)

\* re.match(r'(\d{4})\s+([A-Za-z]+)\s+(.+)', text): the groups, or NoGroup
TitleMatch(text) ==
    LET m == RunEnd(text, 5, White)         \* the make starts here
        n == RunEnd(text, m, Alpha)         \* and ends before here
        r == RunEnd(text, n, White)         \* group 3 starts here
        z == First({k \in r..(Len(text) + 1) : k > Len(text) \/ text[k] = "\n"})
    IN  IF /\ Len(text) >= 4
           /\ \A k \in 1..4 : text[k] \in Digit
           /\ m > 5 /\ n > m /\ r > n /\ z > r
        THEN <<Group(1, 4), Group(m, n - 1), Group(r, z - 1)>>
        ELSE <<NoGroup, NoGroup, NoGroup>>

RECURSIVE year_make_model_in_titles(_)
year_make_model_in_titles(elems) ==
    IF Len(elems) = 0 THEN None
    ELSE LET text == strip(Head(elems).text)
             m == TitleMatch(text)
         IN  IF /\ Matched(m[1])
                /\ \E k \in 1..Len(known_makes) :
                       lower(known_makes[k]) = lower(GroupText(text, m[2]))
             THEN Some(ModelAndTrim(GroupText(text, m[1]), GroupText(text, m[2]),
                                    GroupText(text, m[3])))
             ELSE year_make_model_in_titles(Tail(elems))

\* rf'(\d{{4}})\s+{make}\s+([A-Za-z0-9]+(?:\s+[A-Za-z0-9]+)?)' searched in
\* html, case ignored: groups 1 and 2; years are the places of html where
\* four digits stand
FourDigits(s) ==
    {k \in 1..(Len(s) - 3) : \A d \in 0..3 : s[k + d] \in Digit}

MakeMatch(html_lower, years, make) ==
    LET MakeAt(k) == RunEnd(html_lower, k + 4, White)
        ModelAt(k) == RunEnd(html_lower, MakeAt(k) + Len(make), White)
        i == First({k \in years :
                      /\ MakeAt(k) > k + 4
                      /\ At(html_lower, MakeAt(k), lower(make))
                      /\ ModelAt(k) > MakeAt(k) + Len(make)
                      /\ ModelAt(k) <= Len(html_lower)
                      /\ html_lower[ModelAt(k)] \in Alnum})
        a == RunEnd(html_lower, ModelAt(i), Alnum)   \* after the first word
        b == RunEnd(html_lower, a, White)            \* a second word starts here
    IN  IF i = 0 THEN <<NoGroup, NoGroup>>
        ELSE <<Group(i, i + 3),
               Group(ModelAt(i),
                     IF b > a /\ b <= Len(html_lower) /\ html_lower[b] \in Alnum
                     THEN RunEnd(html_lower, b, Alnum) - 1 ELSE a - 1)>>

RECURSIVE year_make_model_by_make(_, _, _, _)
year_make_model_by_make(html, html_lower, years, k) ==
    IF k > Len(known_makes) THEN None
    ELSE LET m == MakeMatch(html_lower, years, known_makes[k])
         IN  IF Matched(m[1])
             THEN Some(ModelAndTrim(GroupText(html, m[1]), known_makes[k],
                                    GroupText(html, m[2])))
             ELSE year_make_model_by_make(html, html_lower, years, k + 1)

\* re.search(r'\b(19[89]\d|20[0-2]\d)\b', text): group 1
YearMatch(text) ==
    LET i == First({k \in 1..(Len(text) - 3) :
                      /\ (k = 1 \/ text[k - 1] \notin Word)
                      /\ (k + 4 > Len(text) \/ text[k + 4] \notin Word)
                      /\ \/ /\ text[k] = "1" /\ text[k + 1] = "9"
                            /\ text[k + 2] \in {"8", "9"}
                         \/ /\ text[k] = "2" /\ text[k + 1] = "0"
                            /\ text[k + 2] \in {"0", "1", "2"}
                      /\ text[k + 3] \in Digit})
    IN  IF i = 0 THEN NoGroup ELSE Group(i, i + 3)

RECURSIVE year_in_elements(_)
year_in_elements(elems) ==
    IF Len(elems) = 0 THEN None
    ELSE LET text == strip(Head(elems).text)
             g == YearMatch(text)
         IN  IF /\ Matched(g)
                /\ 1980 <= int(GroupText(text, g)).val
                /\ int(GroupText(text, g)).val <= 2026
             THEN Some(YearMakeModel(Some(GroupText(text, g)), None, None, None))
             ELSE year_in_elements(Tail(elems))

VehicleHistoryScraper_extract_year_make_model(html, soup) ==
    LET in_titles == year_make_model_in_titles(SelectSeq(soup, IsTitleElement))
        by_make == year_make_model_by_make(html, lower(html), FourDigits(lower(html)), 1)
    IN  IF ~IsNone(in_titles) THEN Return(in_titles)
        ELSE IF ~IsNone(by_make) THEN Return(by_make)
        ELSE Return(year_in_elements(SelectSeq(soup, IsYearElement)))

\* for pattern in patterns: the int of group 1 of the first pattern that
\* matches and whose group converts; a ValueError is passed over
RECURSIVE first_int(_, _)
first_int(html, groups) ==
    IF Len(groups) = 0 THEN None
    ELSE IF /\ Matched(Head(groups))
            /\ int(GroupText(html, Head(groups))).exc = ""
    THEN Some(int(GroupText(html, Head(groups))).val)
    ELSE first_int(html, Tail(groups))

\* VehicleHistoryScraper._extract_owners
IsOwnerElement(e) ==
    ClassContains(e, <<"o", "w", "n", "e", "r">>) \/ ClassIs(e, <<"o", "w", "n", "e", "r", "s", "h", "i", "p", "-", "h", "i", "s", "t", "o", "r", "y">>)

RECURSIVE owners_in_elements(_)
owners_in_elements(elems) ==
    IF Len(elems) = 0 THEN Return(None)
    ELSE LET text == Head(elems).text
             g == Leftmost(RunThenWords(lower(text), Digit, <<<<"p", "r", "e", "v", "i", "o", "u", "s">>, <<"o", "w", "n", "e", "r">>>>),
                           RunThenWords(lower(text), Digit, <<<<"o", "w", "n", "e", "r">>>>))
         IN  IF Matched(g)
             THEN IF int(GroupText(text, g)).exc = ""
                  THEN Return(Some(int(GroupText(text, g)).val))
                  ELSE Raise(int(GroupText(text, g)).exc)
             ELSE owners_in_elements(Tail(elems))

VehicleHistoryScraper_extract_owners(html, soup) ==
    LET l == lower(html)
        found == first_int(html,
                    <<RunThenWords(l, Digit, <<<<"p", "r", "e", "v", "i", "o", "u", "s">>, <<"o", "w", "n", "e", "r">>>>),
                      RunThenWords(l, Digit, <<<<"o", "w", "n", "e", "r">>>>),
                      Leftmost(WordsThenRun(l, <<<<"o", "w", "n", "e", "r", "s">>>>, QuoteWhiteColonGt, TRUE, Digit),
                               WordsThenRun(l, <<<<"o", "w", "n", "e", "r">>>>, QuoteWhiteColonGt, TRUE, Digit))>>)
    IN  IF ~IsNone(found) THEN Return(found)
        ELSE owners_in_elements(SelectSeq(soup, IsOwnerElement))

\* VehicleHistoryScraper._extract_accidents
IsAccidentElement(e) == ClassContains(e, <<"a", "c", "c", "i", "d", "e", "n", "t">>)

RECURSIVE accidents_in_elements(_)
accidents_in_elements(elems) ==
    IF Len(elems) = 0 THEN Return(None)
    ELSE LET text == Head(elems).text
             g == RunThenWords(lower(text), Digit, <<<<"a", "c", "c", "i", "d", "e", "n", "t">>>>)
         IN  IF Contains(lower(text), <<"n", "o", " ", "a", "c", "c", "i", "d", "e", "n", "t">>) THEN Return(Some(0))
             ELSE IF Matched(g)
             THEN IF int(GroupText(text, g)).exc = ""
                  THEN Return(Some(int(GroupText(text, g)).val))
                  ELSE Raise(int(GroupText(text, g)).exc)
             ELSE accidents_in_elements(Tail(elems))

VehicleHistoryScraper_extract_accidents(html, soup) ==
    LET l == lower(html)
        in_elements == accidents_in_elements(SelectSeq(soup, IsAccidentElement))
    IN  IF WordsIn(l, <<<<"n", "o">>, <<"a", "c", "c", "i", "d", "e", "n", "t">>>>) THEN Return(Some(0))
        ELSE IF in_elements.exc # "" \/ ~IsNone(in_elements.val) THEN in_elements
        ELSE Return(first_int(html,
                <<RunThenWords(l, Digit, <<<<"a", "c", "c", "i", "d", "e", "n", "t">>>>),
                  Leftmost(WordsThenRun(l, <<<<"a", "c", "c", "i", "d", "e", "n", "t", "s">>>>, QuoteWhiteColonGt, TRUE, Digit),
                           WordsThenRun(l, <<<<"a", "c", "c", "i", "d", "e", "n", "t">>>>, QuoteWhiteColonGt, TRUE, Digit))>>))

\* VehicleHistoryScraper._extract_service_records
\* r'service.*?(\d+)\s*records?' searched in s: group 1
ServiceThenRecords(s) ==
    LET NumberAfter(k) ==
            First({j \in (k + 7)..Len(s) :
                     /\ \A x \in (k + 7)..(j - 1) : s[x] # "\n"
                     /\ s[j] \in Digit
                     /\ WordsAt(s, RunEnd(s, j, Digit), <<<<"r", "e", "c", "o", "r", "d">>>>) > 0})
        i == First({k \in 1..Len(s) : At(s, k, <<"s", "e", "r", "v", "i", "c", "e">>) /\ NumberAfter(k) > 0})
    IN  IF i = 0 THEN NoGroup
        ELSE Group(NumberAfter(i), RunEnd(s, NumberAfter(i), Digit) - 1)

VehicleHistoryScraper_extract_service_records(html, soup) ==
    LET l == lower(html)
    IN  Return(first_int(html,
            <<RunThenWords(l, Digit, <<<<"s", "e", "r", "v", "i", "c", "e">>, <<"h", "i", "s", "t", "o", "r", "y">>, <<"r", "e", "c", "o", "r", "d">>>>),
              RunThenWords(l, Digit, <<<<"s", "e", "r", "v", "i", "c", "e">>, <<"r", "e", "c", "o", "r", "d">>>>),
              ServiceThenRecords(l)>>))

\* VehicleHistoryScraper._extract_mileage
\* r'([\d,]+)\s*(?:miles|mi)\b' searched in s: group 1
RunThenMiles(s) ==
    LET UnitAt(k) == RunEnd(s, RunEnd(s, k, DigitComma), White)
        EndsWord(j) == j > Len(s) \/ s[j] \notin Word
        i == First({k \in 1..Len(s) :
                      /\ s[k] \in DigitComma
                      /\ \/ At(s, UnitAt(k), <<"m", "i", "l", "e", "s">>) /\ EndsWord(UnitAt(k) + 5)
                         \/ At(s, UnitAt(k), <<"m", "i">>) /\ EndsWord(UnitAt(k) + 2)})
    IN  IF i = 0 THEN NoGroup ELSE Group(i, RunEnd(s, i, DigitComma) - 1)

\* 100 < int(mileage) < 1000000, an exception of int() passed over
mileage_any_value(matched) == int(replace_commas(matched)).exc = ""

MileageInBand(matched) ==
    LET v == int(replace_commas(matched))
    IN  v.exc = "" /\ 100 < v.val /\ v.val < 1000000

RECURSIVE first_mileage(_, _)
first_mileage(html, groups) ==
    IF Len(groups) = 0 THEN None
    ELSE IF Matched(Head(groups)) /\ MileageInBand(GroupText(html, Head(groups)))
    THEN Some(GroupText(html, Head(groups)))
    ELSE first_mileage(html, Tail(groups))

IsMileageElement(e) == ClassContains(e, <<"m", "i", "l", "e", "a", "g", "e">>) \/ ClassContains(e, <<"o", "d", "o", "m", "e", "t", "e", "r">>)

\* re.search(r'([\d,]+)', text): group 1
FirstRun(text) ==
    LET i == First({k \in 1..Len(text) : text[k] \in DigitComma})
    IN  IF i = 0 THEN NoGroup ELSE Group(i, RunEnd(text, i, DigitComma) - 1)

RECURSIVE mileage_in_elements(_)
mileage_in_elements(elems) ==
    IF Len(elems) = 0 THEN None
    ELSE LET text == Head(elems).text
         IN  IF Matched(FirstRun(text)) /\ MileageInBand(GroupText(text, FirstRun(text)))
             THEN Some(GroupText(text, FirstRun(text)))
             ELSE mileage_in_elements(Tail(elems))

VehicleHistoryScraper_extract_mileage(html, soup) ==
    LET l == lower(html)
        odometer_reading == <<<<"l", "a", "s", "t">>, <<"r", "e", "p", "o", "r", "t", "e", "d">>, <<"o", "d", "o", "m", "e", "t", "e", "r">>, <<"r", "e", "a", "d", "i", "n", "g">>>>
        found == first_mileage(html,
                    <<RunThenWords(l, DigitComma, odometer_reading),
                      WordsThenRun(l, odometer_reading, ColonWhite, FALSE, DigitComma),
                      WordsThenRun(l, <<<<"o", "d", "o", "m", "e", "t", "e", "r">>>>, ColonWhite, FALSE, DigitComma),
                      RunThenMiles(l),
                      WordsThenRun(l, <<<<"m", "i", "l", "e", "a", "g", "e">>>>, ColonWhite, FALSE, DigitComma)>>)
    IN  IF ~IsNone(found) THEN Return(found)
        ELSE Return(mileage_in_elements(SelectSeq(soup, IsMileageElement)))

\* VehicleHistoryScraper._extract_title_status
statuses ==
    <<<<<<"c", "l", "e", "a", "n", " ", "t", "i", "t", "l", "e">>, <<"C", "l", "e", "a", "n">>>>, <<<<"s", "a", "l", "v", "a", "g", "e">>, <<"S", "a", "l", "v", "a", "g", "e">>>>,
      <<<<"r", "e", "b", "u", "i", "l", "t">>, <<"R", "e", "b", "u", "i", "l", "t">>>>, <<<<"f", "l", "o", "o", "d">>, <<"F", "l", "o", "o", "d">>>>,
      <<<<"l", "e", "m", "o", "n">>, <<"L", "e", "m", "o", "n">>>>, <<<<"j", "u", "n", "k">>, <<"J", "u", "n", "k">>>>>>

RECURSIVE first_status(_, _)
first_status(html_lower, k) ==
    IF k > Len(statuses) THEN None
    ELSE IF Contains(html_lower, statuses[k][1]) THEN Some(statuses[k][2])
    ELSE first_status(html_lower, k + 1)

VehicleHistoryScraper_extract_title_status(html, soup) ==
    Return(first_status(lower(html), 1))

\* VehicleHistoryScraper._extract_additional_data.  A dict is the function
\* from its keys; the empty dict is << >>.
\* r'\$[\d,]+(?:\.\d{2})?\s*(?:CARFAX\s*Retail\s*Value)?' searched in html:
\* group 0
RetailValueMatch(html) ==
    LET i == First({k \in 1..(Len(html) - 1) :
                      html[k] = "$" /\ html[k + 1] \in DigitComma})
        a == RunEnd(html, i + 1, DigitComma)
        b == IF /\ a + 2 <= Len(html) /\ html[a] = "."
                /\ html[a + 1] \in Digit /\ html[a + 2] \in Digit
             THEN a + 3 ELSE a
        c == WordsAt(html, b, <<<<"C", "A", "R", "F", "A", "X">>, <<"R", "e", "t", "a", "i", "l">>, <<"V", "a", "l", "u", "e">>>>)
    IN  IF i = 0 THEN NoGroup
        ELSE Group(i, (IF c > 0 THEN c ELSE RunEnd(html, b, White)) - 1)

\* r'Last owned in\s+([A-Za-z\s]+)' searched in html: group 1
LastOwnedMatch(html) ==
    LET StateAt(k) == RunEnd(html, k + 13, White)
        i == First({k \in 1..Len(html) :
                      /\ At(html, k, <<"L", "a", "s", "t", " ", "o", "w", "n", "e", "d", " ", "i", "n">>)
                      /\ StateAt(k) > k + 13
                      /\ \/ RunEnd(html, StateAt(k), Alpha \cup White) > StateAt(k)
                         \/ StateAt(k) > k + 14})
    IN  IF i = 0 THEN NoGroup
        ELSE IF RunEnd(html, StateAt(i), Alpha \cup White) > StateAt(i)
        THEN Group(StateAt(i), RunEnd(html, StateAt(i), Alpha \cup White) - 1)
        ELSE Group(StateAt(i) - 1, StateAt(i) - 1)

\* for x in names: if x in html.upper(): ... break
RECURSIVE first_contained(_, _)
first_contained(html_upper, names) ==
    IF Len(names) = 0 THEN None
    ELSE IF Contains(html_upper, Head(names)) THEN Some(Head(names))
    ELSE first_contained(html_upper, Tail(names))

vehicle_types ==
    <<<<"S", "E", "D", "A", "N">>, <<"S", "U", "V">>, <<"C", "O", "U", "P", "E">>, <<"T", "R", "U", "C", "K">>, <<"V", "A", "N">>, <<"W", "A", "G", "O", "N">>,
      <<"C", "O", "N", "V", "E", "R", "T", "I", "B", "L", "E">>, <<"H", "A", "T", "C", "H", "B", "A", "C", "K">>>>

fuel_types == <<<<"G", "A", "S", "O", "L", "I", "N", "E">>, <<"D", "I", "E", "S", "E", "L">>, <<"E", "L", "E", "C", "T", "R", "I", "C">>, <<"H", "Y", "B", "R", "I", "D">>, <<"F", "L", "E", "X", " ", "F", "U", "E", "L">>>>

drive_types ==
    <<<<"A", "L", "L", " ", "W", "H", "E", "E", "L", " ", "D", "R", "I", "V", "E">>, <<"F", "R", "O", "N", "T", " ", "W", "H", "E", "E", "L", " ", "D", "R", "I", "V", "E">>, <<"R", "E", "A", "R", " ", "W", "H", "E", "E", "L", " ", "D", "R", "I", "V", "E">>,
      <<"4", "W", "D">>, <<"A", "W", "D">>, <<"F", "W", "D">>, <<"R", "W", "D">>>>

\* data[key] = value[1] when there is a value
Entry(key, value) == IF IsNone(value) THEN << >> ELSE key :> value[1]

VehicleHistoryScraper_extract_additional_data(html, soup) ==
    LET value_match == RetailValueMatch(html)
        state_match == LastOwnedMatch(html)
    IN  Return(
            Entry("retail_value",
                  IF Matched(value_match)
                  THEN Some(strip(GroupText(html, value_match))) ELSE None)
            @@ Entry("vehicle_type", first_contained(upper(html), vehicle_types))
            @@ Entry("fuel_type", first_contained(upper(html), fuel_types))
            @@ Entry("drive_type", first_contained(upper(html), drive_types))
            @@ Entry("last_state",
                     IF Matched(state_match)
                     THEN Some(strip(GroupText(html, state_match))) ELSE None))

\* VehicleHistoryScraper._extract_report_data, the try block: the extractors
\* run in order under one except clause, so the first one that raises ends
\* the block with the fields set so far
SITE_ERROR_MARKER == <<"u", "n", "e", "x", "p", "e", "c", "t", "e", "d", " ", "e", "r", "r", "o", "r", " ", "h", "a", "s", " ", "o", "c", "c", "u", "r", "r", "e", "d">>

Failed(report) == [report EXCEPT !.error = Some(ERR_EXTRACT)]

\* the statements of the block from the call of one extractor on, given the
\* report so far and what that extractor did
with_raw_data(report, raw_data) ==
    IF raw_data.exc # "" THEN Failed(report)
    ELSE [report EXCEPT !.raw_data = raw_data.val]

with_title_status(report, html, soup, title_status) ==
    IF title_status.exc # "" THEN Failed(report)
    ELSE with_raw_data([report EXCEPT !.title_status = title_status.val],
                       VehicleHistoryScraper_extract_additional_data(html, soup))

with_mileage(report, html, soup, mileage) ==
    IF mileage.exc # "" THEN Failed(report)
    ELSE with_title_status([report EXCEPT !.mileage = mileage.val], html, soup,
                           VehicleHistoryScraper_extract_title_status(html, soup))

with_service_records(report, html, soup, service_records) ==
    IF service_records.exc # "" THEN Failed(report)
    ELSE with_mileage([report EXCEPT !.service_records = service_records.val],
                      html, soup, VehicleHistoryScraper_extract_mileage(html, soup))

with_accidents(report, html, soup, accidents) ==
    IF accidents.exc # "" THEN Failed(report)
    ELSE with_service_records([report EXCEPT !.accidents = accidents.val], html, soup,
                              VehicleHistoryScraper_extract_service_records(html, soup))

with_owners(report, html, soup, owners) ==
    IF owners.exc # "" THEN Failed(report)
    ELSE with_accidents([report EXCEPT !.owners = owners.val], html, soup,
                        VehicleHistoryScraper_extract_accidents(html, soup))

with_year_make_model(report, html, soup, ymm) ==
    IF ymm.exc # "" THEN Failed(report)
    ELSE with_owners(IF IsNone(ymm.val) THEN report
                     ELSE [report EXCEPT !.year = ymm.val[1].year,
                                         !.make = ymm.val[1].make,
                                         !.model = ymm.val[1].model,
                                         !.trim = ymm.val[1].trim],
                     html, soup, VehicleHistoryScraper_extract_owners(html, soup))

extract_fields(vin, html, soup) ==
    with_year_make_model(VehicleReport(vin, None), html, soup,
                         VehicleHistoryScraper_extract_year_make_model(html, soup))

\* VehicleHistoryScraper._extract_report_data on the document doc
extract_report_data_marker_late(vin, doc) ==
    IF Contains(lower(HtmlOf(doc)), SITE_ERROR_MARKER)
    THEN [extract_fields(vin, HtmlOf(doc), doc) EXCEPT !.error = Some(ERR_SITE)]
    ELSE extract_fields(vin, HtmlOf(doc), doc)

VehicleHistoryScraper_extract_report_data(vin, doc) ==
    IF Contains(lower(HtmlOf(doc)), SITE_ERROR_MARKER)
    THEN VehicleReport(vin, Some(ERR_SITE))
    ELSE extract_fields(vin, HtmlOf(doc), doc)

\* ------------------------------------------------------------------------
\* FullReportScraper._extract_full_report on a document
\* (src/src/scraper/full_report_scraper.py)
\* ------------------------------------------------------------------------
\* soup.get_text(" ", strip=True): the stripped texts that are not empty,
\* joined by blanks
RECURSIVE TextOf(_)
TextOf(doc) ==
    IF Len(doc) = 0 THEN << >>
    ELSE IF Len(strip(Head(doc).text)) = 0 THEN TextOf(Tail(doc))
    ELSE IF Len(TextOf(Tail(doc))) = 0 THEN strip(Head(doc).text)
    ELSE strip(Head(doc).text) \o <<" ">> \o TextOf(Tail(doc))

\* the fields of FullCarfaxReport(vin=vin) that the extraction below sets, at
\* their defaults; a string is the sequence of its characters; report_date,
\* the time of the call, and damage_reported, which nothing sets, are left
\* out
FullReport(vin) ==
    [vin |-> vin, year |-> << >>, make |-> << >>, model |-> << >>, trim |-> << >>,
     total_owners |-> 0, accidents_reported |-> 0, service_records_count |-> 0,
     last_odometer |-> << >>, title_status |-> << >>, owners |-> << >>,
     detailed_history |-> << >>,
     body_type |-> << >>, engine |-> << >>, fuel_type |-> << >>, drive_type |-> << >>,
     retail_value |-> << >>, wholesale_value |-> << >>, trade_in_value |-> << >>,
     private_party_value |-> << >>, last_state |-> << >>, total_loss |-> << >>,
     structural_damage |-> << >>, airbag_deployment |-> << >>,
     odometer_status |-> << >>, basic_warranty |-> << >>, recalls |-> << >>,
     error |-> << >>]

\* r'(\d{4})\s+([A-Z]+)\s+(\d+\s+SERIES\s+[A-Z0-9]+)' searched in s, case
\* ignored: groups 1, 2 and 3
SeriesMatch(s) ==
    LET MakeAt(k) == RunEnd(s, k + 4, White)
        MakeEnd(k) == RunEnd(s, MakeAt(k), Alpha)
        ModelAt(k) == RunEnd(s, MakeEnd(k), White)
        NumEnd(k) == RunEnd(s, ModelAt(k), Digit)
        SeriesAt(k) == RunEnd(s, NumEnd(k), White)
        LastAt(k) == RunEnd(s, SeriesAt(k) + 6, White)
        i == First({k \in 1..(Len(s) - 3) :
                      /\ \A d \in 0..3 : s[k + d] \in Digit
                      /\ MakeAt(k) > k + 4
                      /\ MakeEnd(k) > MakeAt(k)
                      /\ ModelAt(k) > MakeEnd(k)
                      /\ NumEnd(k) > ModelAt(k)
                      /\ SeriesAt(k) > NumEnd(k)
                      /\ At(s, SeriesAt(k), <<"s", "e", "r", "i", "e", "s">>)
                      /\ LastAt(k) > SeriesAt(k) + 6
                      /\ RunEnd(s, LastAt(k), Alnum) > LastAt(k)})
    IN  IF i = 0 THEN <<NoGroup, NoGroup, NoGroup>>
        ELSE <<Group(i, i + 3), Group(MakeAt(i), MakeEnd(i) - 1),
               Group(ModelAt(i), RunEnd(s, LastAt(i), Alnum) - 1)>>

\* r'(\d{4})\s+([A-Z]+)\s+([A-Z0-9\s]+?)(?:VIN|"|\n)' searched in s, case
\* ignored: groups 1, 2 and 3.  The blanks before group 3 are as many as
\* allow a match, group 3 is as short as allows one.
SimpleMatch(s) ==
    LET MakeAt(k) == RunEnd(s, k + 4, White)
        MakeEnd(k) == RunEnd(s, MakeAt(k), Alpha)
        ModelAt(k) == RunEnd(s, MakeEnd(k), White)
        Ends(e) == e <= Len(s) /\ (At(s, e, <<"v", "i", "n">>) \/ s[e] \in {"\"", "\n"})
        \* where group 3 ends when it starts at w: 0 when it cannot
        EndFrom(w) == First({e \in (w + 1)..RunEnd(s, w, Alnum \cup White) : Ends(e)})
        \* where group 3 starts: 0 when it cannot
        StartOf(k) ==
            IF ModelAt(k) > MakeEnd(k) /\ EndFrom(ModelAt(k)) > 0 THEN ModelAt(k)
            ELSE LET W == {w \in (MakeEnd(k) + 1)..(ModelAt(k) - 1) : EndFrom(w) > 0}
                 IN  IF W = {} THEN 0 ELSE CHOOSE w \in W : \A v \in W : v <= w
        i == First({k \in 1..(Len(s) - 3) :
                      /\ \A d \in 0..3 : s[k + d] \in Digit
                      /\ MakeAt(k) > k + 4
                      /\ MakeEnd(k) > MakeAt(k)
                      /\ StartOf(k) > 0})
    IN  IF i = 0 THEN <<NoGroup, NoGroup, NoGroup>>
        ELSE <<Group(i, i + 3), Group(MakeAt(i), MakeEnd(i) - 1),
               Group(StartOf(i), EndFrom(StartOf(i)) - 1)>>

\* the vehicle of the title: the report with year, make, model and trim set
full_year_make_model(report, html) ==
    LET l == lower(html)
        a == SeriesMatch(l)
        b == SimpleMatch(l)
        model_part == strip(GroupText(html, b[3]))
        parts == split(model_part)
    IN  IF Matched(a[1])
        THEN [report EXCEPT !.year = GroupText(html, a[1]),
                            !.make = GroupText(html, a[2]),
                            !.model = strip(GroupText(html, a[3]))]
        ELSE IF Matched(b[1])
        THEN IF Len(model_part) < 50 /\ Len(parts) > 0
             THEN [report EXCEPT !.year = GroupText(html, b[1]),
                                 !.make = GroupText(html, b[2]),
                                 !.model = parts[1],
                                 !.trim = IF Len(parts) > 1 THEN join(Tail(parts))
                                          ELSE << >>]
             ELSE [report EXCEPT !.year = GroupText(html, b[1]),
                                 !.make = GroupText(html, b[2])]
        ELSE report

\* the accident count: r'No\s*accidents?\s*(?:or\s*damage\s*)?reported', else
\* group 1 of r'(\d+)\s*accidents?\s*reported', else the default
NoAccidentsReported(l) ==
    \/ WordsIn(l, <<<<"n", "o">>, <<"a", "c", "c", "i", "d", "e", "n", "t", "s">>, <<"o", "r">>, <<"d", "a", "m", "a", "g", "e">>, <<"r", "e", "p", "o", "r", "t", "e", "d">>>>)
    \/ WordsIn(l, <<<<"n", "o">>, <<"a", "c", "c", "i", "d", "e", "n", "t">>, <<"o", "r">>, <<"d", "a", "m", "a", "g", "e">>, <<"r", "e", "p", "o", "r", "t", "e", "d">>>>)
    \/ WordsIn(l, <<<<"n", "o">>, <<"a", "c", "c", "i", "d", "e", "n", "t", "s">>, <<"r", "e", "p", "o", "r", "t", "e", "d">>>>)
    \/ WordsIn(l, <<<<"n", "o">>, <<"a", "c", "c", "i", "d", "e", "n", "t">>, <<"r", "e", "p", "o", "r", "t", "e", "d">>>>)

full_accidents(html) ==
    LET l == lower(html)
        g == Leftmost(RunThenWords(l, Digit, <<<<"a", "c", "c", "i", "d", "e", "n", "t", "s">>, <<"r", "e", "p", "o", "r", "t", "e", "d">>>>),
                      RunThenWords(l, Digit, <<<<"a", "c", "c", "i", "d", "e", "n", "t">>, <<"r", "e", "p", "o", "r", "t", "e", "d">>>>))
    IN  IF NoAccidentsReported(l) THEN Return(0)
        ELSE IF Matched(g)
        THEN IF int(GroupText(html, g)).exc = ""
             THEN Return(int(GroupText(html, g)).val)
             ELSE [exc |-> int(GroupText(html, g)).exc, val |-> 0]
        ELSE Return(0)

\* the owner count: group 1 of r'(\d+)\s*Previous\s*owners?', else the default
full_total_owners(html) ==
    LET g == RunThenWords(lower(html), Digit, <<<<"p", "r", "e", "v", "i", "o", "u", "s">>, <<"o", "w", "n", "e", "r">>>>)
    IN  IF Matched(g)
        THEN IF int(GroupText(html, g)).exc = ""
             THEN Return(int(GroupText(html, g)).val)
             ELSE [exc |-> int(GroupText(html, g)).exc, val |-> 0]
        ELSE Return(0)

\* the service count: the first of service_patterns that matches
full_service_records(html) ==
    LET l == lower(html)
        first == Leftmost(RunThenWords(l, Digit, <<<<"s", "e", "r", "v", "i", "c", "e">>, <<"h", "i", "s", "t", "o", "r", "y">>, <<"r", "e", "c", "o", "r", "d">>>>),
                          RunThenWords(l, Digit, <<<<"s", "e", "r", "v", "i", "c", "e">>, <<"r", "e", "c", "o", "r", "d">>>>))
        g == IF Matched(first) THEN first ELSE ServiceThenRecords(l)
    IN  IF Matched(g)
        THEN IF int(GroupText(html, g)).exc = ""
             THEN Return(int(GroupText(html, g)).val)
             ELSE [exc |-> int(GroupText(html, g)).exc, val |-> 0]
        ELSE Return(0)

\* words, then a run of chars, then closing (no blank before it): the run
Framed(s, words, chars, closing) ==
    LET RunAt(k) == WordsAt(s, k, words)
        i == First({k \in 1..Len(s) :
                      /\ s[k] \notin White
                      /\ RunAt(k) > 0
                      /\ RunEnd(s, RunAt(k), chars) > RunAt(k)
                      /\ At(s, RunEnd(s, RunAt(k), chars), Head(closing))
                      /\ WordsAt(s, RunEnd(s, RunAt(k), chars), closing) > 0})
    IN  IF i = 0 THEN NoGroup ELSE Group(RunAt(i), RunEnd(s, RunAt(i), chars) - 1)

\* key[:\s]*"?([\d,]+) searched in s: group 1
KeyThenRun(s, key) ==
    LET RunAt(k) ==
            LET a == RunEnd(s, k + Len(key), ColonWhite)
            IN  IF a <= Len(s) /\ s[a] = "\"" /\ a + 1 <= Len(s) /\ s[a + 1] \in DigitComma
                THEN a + 1 ELSE a
        i == First({k \in 1..Len(s) :
                      /\ At(s, k, key)
                      /\ RunAt(k) <= Len(s)
                      /\ s[RunAt(k)] \in DigitComma})
    IN  IF i = 0 THEN NoGroup ELSE Group(RunAt(i), RunEnd(s, RunAt(i), DigitComma) - 1)

RECURSIVE first_group(_)
first_group(groups) ==
    IF Len(groups) = 0 THEN NoGroup
    ELSE IF Matched(Head(groups)) THEN Head(groups)
    ELSE first_group(Tail(groups))

\* the last odometer reading: group 1 of the first of odometer_patterns that
\* matches, as it stands in the document
full_last_odometer(html) ==
    LET l == lower(html)
        g == first_group(
                <<Framed(l, <<<<"<", "s", "t", "r", "o", "n", "g", ">">>>>, DigitComma,
                         <<<<"<", "/", "s", "t", "r", "o", "n", "g", ">">>, <<"l", "a", "s", "t">>, <<"r", "e", "p", "o", "r", "t", "e", "d">>, <<"o", "d", "o", "m", "e", "t", "e", "r">>>>),
                  Framed(l, <<<<">">>>>, DigitComma,
                         <<<<"<", "/", "s", "t", "r", "o", "n", "g", ">">>, <<"l", "a", "s", "t">>, <<"r", "e", "p", "o", "r", "t", "e", "d">>>>),
                  RunThenWords(l, DigitComma, <<<<"l", "a", "s", "t">>, <<"r", "e", "p", "o", "r", "t", "e", "d">>, <<"o", "d", "o", "m", "e", "t", "e", "r">>>>),
                  WordsThenRun(l, <<<<"l", "a", "s", "t">>, <<"r", "e", "p", "o", "r", "t", "e", "d">>, <<"o", "d", "o", "m", "e", "t", "e", "r">>, <<"r", "e", "a", "d", "i", "n", "g">>>>,
                               ColonWhite, FALSE, DigitComma),
                  KeyThenRun(l, <<"\"", "l", "a", "s", "t", "r", "e", "p", "o", "r", "t", "e", "d", "o", "d", "o", "m", "e", "t", "e", "r", "\"">>),
                  KeyThenRun(l, <<"l", "a", "s", "t", "o", "d", "o", "m", "e", "t", "e", "r">>),
                  Framed(l, <<<<"\"", "t", "e", "x", "t", "\"">>, <<":">>, <<"\"", "<", "s", "t", "r", "o", "n", "g", ">">>>>, DigitComma,
                         <<<<"<", "/", "s", "t", "r", "o", "n", "g", ">">>>>)>>)
    IN  IF Matched(g) THEN GroupText(html, g) ELSE << >>

\* a.*?b searched in s: b follows a on the same line
LineThen(s, a, b) ==
    \E k \in 1..Len(s) :
        /\ At(s, k, a)
        /\ LET from == k + Len(a)
               j == First({x \in from..Len(s) : At(s, x, b)})
               nl == First({x \in from..Len(s) : s[x] = "\n"})
           IN  j > 0 /\ (nl = 0 \/ j < nl)

\* the title status left at its default when nothing matches
title_status_default_kept(html) ==
    LET l == lower(html)
    IN  IF WordsIn(l, <<<<"g", "u", "a", "r", "a", "n", "t", "e", "e", "d">>, <<"n", "o">>, <<"p", "r", "o", "b", "l", "e", "m">>>>) THEN <<"C", "l", "e", "a", "n">>
        ELSE IF LineThen(l, <<"t", "i", "t", "l", "e">>, <<"c", "l", "e", "a", "n">>) THEN <<"C", "l", "e", "a", "n">>
        ELSE IF LineThen(l, <<"s", "a", "l", "v", "a", "g", "e">>, <<"t", "i", "t", "l", "e">>) \/ LineThen(l, <<"t", "i", "t", "l", "e">>, <<"s", "a", "l", "v", "a", "g", "e">>)
        THEN <<"S", "a", "l", "v", "a", "g", "e">>
        ELSE IF LineThen(l, <<"r", "e", "b", "u", "i", "l", "t">>, <<"t", "i", "t", "l", "e">>) \/ LineThen(l, <<"t", "i", "t", "l", "e">>, <<"r", "e", "b", "u", "i", "l", "t">>)
        THEN <<"R", "e", "b", "u", "i", "l", "t">>
        ELSE IF \/ WordsIn(l, <<<<"n", "o">>, <<"i", "s", "s", "u", "e", "s">>, <<"p", "r", "o", "b", "l", "e", "m">>>>)
                \/ WordsIn(l, <<<<"n", "o">>, <<"i", "s", "s", "u", "e", "s">>, <<"r", "e", "p", "o", "r", "t", "e", "d">>>>)
                \/ WordsIn(l, <<<<"n", "o">>, <<"p", "r", "o", "b", "l", "e", "m">>>>)
                \/ WordsIn(l, <<<<"n", "o">>, <<"r", "e", "p", "o", "r", "t", "e", "d">>>>)
        THEN <<"C", "l", "e", "a", "n">>
        ELSE << >>

\* the title status: the first branch of the if chain that matches
full_title_status(html) ==
    LET l == lower(html)
    IN  IF WordsIn(l, <<<<"g", "u", "a", "r", "a", "n", "t", "e", "e", "d">>, <<"n", "o">>, <<"p", "r", "o", "b", "l", "e", "m">>>>) THEN <<"C", "l", "e", "a", "n">>
        ELSE IF LineThen(l, <<"t", "i", "t", "l", "e">>, <<"c", "l", "e", "a", "n">>) THEN <<"C", "l", "e", "a", "n">>
        ELSE IF LineThen(l, <<"s", "a", "l", "v", "a", "g", "e">>, <<"t", "i", "t", "l", "e">>) \/ LineThen(l, <<"t", "i", "t", "l", "e">>, <<"s", "a", "l", "v", "a", "g", "e">>)
        THEN <<"S", "a", "l", "v", "a", "g", "e">>
        ELSE IF LineThen(l, <<"r", "e", "b", "u", "i", "l", "t">>, <<"t", "i", "t", "l", "e">>) \/ LineThen(l, <<"t", "i", "t", "l", "e">>, <<"r", "e", "b", "u", "i", "l", "t">>)
        THEN <<"R", "e", "b", "u", "i", "l", "t">>
        ELSE IF \/ WordsIn(l, <<<<"n", "o">>, <<"i", "s", "s", "u", "e", "s">>, <<"p", "r", "o", "b", "l", "e", "m">>>>)
                \/ WordsIn(l, <<<<"n", "o">>, <<"i", "s", "s", "u", "e", "s">>, <<"r", "e", "p", "o", "r", "t", "e", "d">>>>)
                \/ WordsIn(l, <<<<"n", "o">>, <<"p", "r", "o", "b", "l", "e", "m">>>>)
                \/ WordsIn(l, <<<<"n", "o">>, <<"r", "e", "p", "o", "r", "t", "e", "d">>>>)
        THEN <<"C", "l", "e", "a", "n">>
        ELSE <<"U", "n", "k", "n", "o", "w", "n">>

\* the owners: for i in range(1, 10), the text from "Owner i" to "Owner i+1"
\* or to the end, and in it the owner type
OwnerNumber(i) == IF i < 10 THEN <<DIGITS[i + 1]>> ELSE <<"1", "0">>

OwnerText(text, i) ==
    LET l == lower(text)
        from == First({k \in 1..Len(l) :
                         At(l, k, <<"o", "w", "n", "e", "r">>)
                         /\ WordsAt(l, k, <<<<"o", "w", "n", "e", "r">>, OwnerNumber(i)>>) > 0})
        after == WordsAt(l, from, <<<<"o", "w", "n", "e", "r">>, OwnerNumber(i)>>)
        next == First({k \in after..Len(l) :
                         At(l, k, <<"o", "w", "n", "e", "r">>)
                         /\ WordsAt(l, k, <<<<"o", "w", "n", "e", "r">>, OwnerNumber(i + 1)>>) > 0})
    IN  IF from = 0 THEN None
        ELSE IF next = 0 THEN Some(SubSeq(text, from, Len(text)))
        ELSE Some(SubSeq(text, from,
                         WordsAt(l, next, <<<<"o", "w", "n", "e", "r">>, OwnerNumber(i + 1)>>) - 1))

OwnerHistory(owner_number, owner_text) ==
    [owner_number |-> owner_number,
     owner_type |-> IF Contains(owner_text, <<"P", "e", "r", "s", "o", "n", "a", "l", " ", "l", "e", "a", "s", "e">>) THEN <<"P", "e", "r", "s", "o", "n", "a", "l", " ", "l", "e", "a", "s", "e">>
                    ELSE IF Contains(owner_text, <<"P", "e", "r", "s", "o", "n", "a", "l">>) THEN <<"P", "e", "r", "s", "o", "n", "a", "l">>
                    ELSE IF Contains(owner_text, <<"C", "o", "r", "p", "o", "r", "a", "t", "e">>) THEN <<"C", "o", "r", "p", "o", "r", "a", "t", "e">>
                    ELSE << >>]

RECURSIVE full_owners(_, _)
full_owners(text, i) ==
    IF i > 9 THEN << >>
    ELSE IF IsNone(OwnerText(text, i)) THEN full_owners(text, i + 1)
    ELSE <<OwnerHistory(i, OwnerText(text, i)[1])>> \o full_owners(text, i + 1)

\* the dated events.  r'(\d{2}/\d{2}/\d{4})' stands at index k of s
DateAt(s, k) ==
    /\ k + 9 <= Len(s)
    /\ \A d \in {0, 1, 3, 4, 6, 7, 8, 9} : s[k + d] \in Digit
    /\ s[k + 2] = "/" /\ s[k + 5] = "/"

\* set(re.findall(date_pattern, s)): two matches never overlap, so every
\* place where the pattern stands is a match
DatesIn(s) == {SubSeq(s, k, k + 9) : k \in {j \in 1..Len(s) : DateAt(s, j)}}

event_keywords ==
    <<<<"V", "e", "h", "i", "c", "l", "e", " ", "s", "e", "r", "v", "i", "c", "e", "d">>, <<"O", "i", "l", " ", "a", "n", "d", " ", "f", "i", "l", "t", "e", "r", " ", "c", "h", "a", "n", "g", "e", "d">>, <<"T", "i", "t", "l", "e", " ", "i", "s", "s", "u", "e", "d">>,
      <<"R", "e", "g", "i", "s", "t", "r", "a", "t", "i", "o", "n">>, <<"I", "n", "s", "p", "e", "c", "t", "i", "o", "n">>, <<"B", "r", "a", "k", "e">>, <<"T", "i", "r", "e">>, <<"B", "a", "t", "t", "e", "r", "y">>,
      <<"S", "o", "l", "d">>, <<"O", "f", "f", "e", "r", "e", "d", " ", "f", "o", "r", " ", "s", "a", "l", "e">>, <<"C", "e", "r", "t", "i", "f", "i", "e", "d", " ", "P", "r", "e", "-", "O", "w", "n", "e", "d">>>>

IsEventIn(keyword, context) == Contains(lower(context), lower(keyword))

\* rf'{date}.*?(?=\d{{2}}/\d{{2}}/\d{{4}}|$)' searched in text, its first 500
\* characters: from the date to the next date or to the end
ContextOf(text, date) ==
    LET from == First({k \in 1..Len(text) : At(text, k, date)})
        next == First({k \in (from + Len(date))..Len(text) : DateAt(text, k)})
        to == IF next = 0 THEN Len(text) ELSE next - 1
    IN  IF from = 0 THEN None
        ELSE Some(SubSeq(text, from, IF to - from + 1 > 500 THEN from + 499 ELSE to))

history_entry_without_events(text, date) ==
    LET context == ContextOf(text, date)[1]
        events == SelectSeq(event_keywords, LAMBDA keyword : IsEventIn(keyword, context))
    IN  IF IsNone(ContextOf(text, date)) THEN None
        ELSE Some([date |-> date,
                   mileage |-> GroupText(context, FirstRun(context)),
                   events |-> events])

\* one entry of detailed_history, None when the date has no context or no event
HistoryEntry(text, date) ==
    LET context == ContextOf(text, date)[1]
        events == SelectSeq(event_keywords, LAMBDA keyword : IsEventIn(keyword, context))
    IN  IF IsNone(ContextOf(text, date)) \/ Len(events) = 0 THEN None
        ELSE Some([date |-> date,
                   mileage |-> GroupText(context, FirstRun(context)),
                   events |-> events])

\* for date in set(dates): the set is walked in the order its hashing gives,
\* here the order of the dates in hash_order
RECURSIVE full_detailed_history(_, _, _)
full_detailed_history(text, dates, hash_order) ==
    IF Len(hash_order) = 0 THEN << >>
    ELSE IF Head(hash_order) \notin dates \/ IsNone(HistoryEntry(text, Head(hash_order)))
    THEN full_detailed_history(text, dates, Tail(hash_order))
    ELSE <<HistoryEntry(text, Head(hash_order))[1]>>
         \o full_detailed_history(text, dates, Tail(hash_order))

\* ------------------------------------------------------------------------
\* FullReportScraper._extract_all_prices.  The four price fields are named
\* by the attribute of the report they set; every pattern is searched with
\* re.IGNORECASE, here in l, the lower-cased page source.
\* ------------------------------------------------------------------------
PriceFields == <<"retail_value", "wholesale_value", "trade_in_value", "private_party_value">>

\* the JSON keys of a field, in the order of its pattern list
json_keys(field) ==
    CASE field = "retail_value"    -> <<<<"\"", "c", "a", "r", "f", "a", "x", "p", "r", "i", "c", "e", "\"">>, <<"\"", "r", "e", "t", "a", "i", "l", "p", "r", "i", "c", "e", "\"">>>>
      [] field = "wholesale_value" -> <<<<"\"", "w", "h", "o", "l", "e", "s", "a", "l", "e", "p", "r", "i", "c", "e", "\"">>>>
      [] field = "trade_in_value"  -> <<<<"\"", "t", "r", "a", "d", "e", "i", "n", "p", "r", "i", "c", "e", "\"">>>>
      [] OTHER                     -> <<<<"\"", "p", "r", "i", "v", "a", "t", "e", "p", "a", "r", "t", "y", "p", "r", "i", "c", "e", "\"">>>>

\* the label of a field at index i of l (Retail, Wholesale, Trade[\s-]?In,
\* Private\s+Party): the index after it, 0 when it is not there
LabelAt(l, i, field) ==
    CASE field = "retail_value" ->
            IF At(l, i, <<"r", "e", "t", "a", "i", "l">>) THEN i + 6 ELSE 0
      [] field = "wholesale_value" ->
            IF At(l, i, <<"w", "h", "o", "l", "e", "s", "a", "l", "e">>) THEN i + 9 ELSE 0
      [] field = "trade_in_value" ->
            IF ~At(l, i, <<"t", "r", "a", "d", "e">>) THEN 0
            ELSE IF i + 5 <= Len(l) /\ l[i + 5] \in White \cup {"-"} /\ At(l, i + 6, <<"i", "n">>)
            THEN i + 8
            ELSE IF At(l, i + 5, <<"i", "n">>) THEN i + 7 ELSE 0
      [] OTHER ->
            IF /\ At(l, i, <<"p", "r", "i", "v", "a", "t", "e">>)
               /\ RunEnd(l, i + 7, White) > i + 7
               /\ At(l, RunEnd(l, i + 7, White), <<"p", "a", "r", "t", "y">>)
            THEN RunEnd(l, i + 7, White) + 5 ELSE 0

\* key\s*:\s*"\$? at index k of l: the index after it, 0 when it is not there
JsonKeyAt(l, k, key) ==
    LET a == RunEnd(l, k + Len(key), White)
        b == RunEnd(l, a + 1, White)
    IN  IF /\ At(l, k, key)
           /\ a <= Len(l) /\ l[a] = ":"
           /\ b <= Len(l) /\ l[b] = "\""
        THEN (IF b + 1 <= Len(l) /\ l[b + 1] = "$" THEN b + 2 ELSE b + 1)
        ELSE 0

\* key\s*:\s*"\$?([\d,]+)" at index k of l: the index after it, 0 when it
\* is not there
JsonValueAt(l, k, key) ==
    LET a == JsonKeyAt(l, k, key)
        z == RunEnd(l, a, DigitComma)
    IN  IF a > 0 /\ z > a /\ z <= Len(l) /\ l[z] = "\"" THEN z + 1 ELSE 0

\* r'"key"\s*:\s*"\$?([\d,]+)"' searched in l: group 1
JsonPrice(l, key) ==
    LET i == First({k \in 1..Len(l) : JsonValueAt(l, k, key) > 0})
    IN  IF i = 0 THEN NoGroup
        ELSE Group(JsonKeyAt(l, i, key), JsonValueAt(l, i, key) - 2)

\* [^}]*"text"\s*:\s*"[^"]*Label from index e of l on
TextLabelFrom(l, e, field) ==
    \E p \in e..Len(l) :
        /\ \A x \in e..(p - 1) : l[x] # "}"
        /\ JsonKeyAt(l, p, <<"\"", "t", "e", "x", "t", "\"">>) > 0
        /\ LET b == RunEnd(l, RunEnd(l, p + 6, White) + 1, White)
           IN  \E q \in (b + 1)..Len(l) :
                  /\ \A x \in (b + 1)..(q - 1) : l[x] # "\""
                  /\ LabelAt(l, q, field) > 0

\* r'"value"\s*:\s*"\$?([\d,]+)"[^}]*"text"\s*:\s*"[^"]*Label' searched in
\* l: group 1
JsonValueWithLabel(l, field) ==
    LET i == First({k \in 1..Len(l) :
                      /\ JsonValueAt(l, k, <<"\"", "v", "a", "l", "u", "e", "\"">>) > 0
                      /\ TextLabelFrom(l, JsonValueAt(l, k, <<"\"", "v", "a", "l", "u", "e", "\"">>), field)})
    IN  IF i = 0 THEN NoGroup
        ELSE Group(JsonKeyAt(l, i, <<"\"", "v", "a", "l", "u", "e", "\"">>), JsonValueAt(l, i, <<"\"", "v", "a", "l", "u", "e", "\"">>) - 2)

\* Label\s+Value[:\s]*\$\s* at index k of l: the index after it, 0 when it
\* is not there
LabelValueAt(l, k, field) ==
    LET a == LabelAt(l, k, field)
        b == RunEnd(l, a, White)
        d == RunEnd(l, b + 5, ColonWhite)
    IN  IF a > 0 /\ b > a /\ At(l, b, <<"v", "a", "l", "u", "e">>) /\ d <= Len(l) /\ l[d] = "$"
        THEN RunEnd(l, d + 1, White) ELSE 0

\* r'Label\s+Value[:\s]*\$\s*([\d,]+)' searched in l: group 1.  (The
\* optional CARFAX\s+ before Retail moves the start of a match, not its
\* group.)
LabelledPrice(l, field) ==
    LET i == First({k \in 1..Len(l) :
                      /\ LabelValueAt(l, k, field) > 0
                      /\ LabelValueAt(l, k, field) <= Len(l)
                      /\ l[LabelValueAt(l, k, field)] \in DigitComma})
    IN  IF i = 0 THEN NoGroup
        ELSE Group(LabelValueAt(l, i, field),
                   RunEnd(l, LabelValueAt(l, i, field), DigitComma) - 1)

\* \$\s* at index k of l: the index after it, 0 when it is not there
DollarAt(l, k) == IF l[k] = "$" THEN RunEnd(l, k + 1, White) ELSE 0

\* r'\$\s*([\d,]+)\s*Label' searched in l, Retail with its optional
\* CARFAX\s+ : group 1
PriceThenLabel(l, field) ==
    LET AfterRun(k) == RunEnd(l, RunEnd(l, DollarAt(l, k), DigitComma), White)
        i == First({k \in 1..Len(l) :
                      /\ DollarAt(l, k) > 0
                      /\ RunEnd(l, DollarAt(l, k), DigitComma) > DollarAt(l, k)
                      /\ \/ LabelAt(l, AfterRun(k), field) > 0
                         \/ /\ field = "retail_value"
                            /\ At(l, AfterRun(k), <<"c", "a", "r", "f", "a", "x">>)
                            /\ RunEnd(l, AfterRun(k) + 6, White) > AfterRun(k) + 6
                            /\ LabelAt(l, RunEnd(l, AfterRun(k) + 6, White), field) > 0})
    IN  IF i = 0 THEN NoGroup
        ELSE Group(DollarAt(l, i), RunEnd(l, DollarAt(l, i), DigitComma) - 1)

\* r'\$\s*([\d,]+)' searched in html: group 1
FirstDollarAmount(html) ==
    LET i == First({k \in 1..Len(html) :
                      /\ DollarAt(html, k) > 0
                      /\ RunEnd(html, DollarAt(html, k), DigitComma) > DollarAt(html, k)})
    IN  IF i = 0 THEN NoGroup
        ELSE Group(DollarAt(html, i), RunEnd(html, DollarAt(html, i), DigitComma) - 1)

\* the groups of the patterns of a field's list, in the order of the list
price_patterns(l, field) ==
    [k \in 1..Len(json_keys(field)) |-> JsonPrice(l, json_keys(field)[k])]
    \o <<JsonValueWithLabel(l, field), LabelledPrice(l, field), PriceThenLabel(l, field)>>

\* f"${match.group(1)}", the empty string when there is no match
PriceText(html, g) == IF Matched(g) THEN <<"$">> \o GroupText(html, g) ELSE << >>

\* one field of _extract_all_prices: the first pattern of its list that
\* matches; retail_value, still empty, takes the first dollar amount
price_labelled_first(html, field) ==
    LET l == lower(html)
        g == first_group(<<LabelledPrice(l, field), PriceThenLabel(l, field)>>
                         \o price_patterns(l, field))
    IN  IF Matched(g) \/ field # "retail_value" THEN PriceText(html, g)
        ELSE PriceText(html, FirstDollarAmount(html))

price_of(html, field) ==
    LET g == first_group(price_patterns(lower(html), field))
    IN  IF Matched(g) \/ field # "retail_value" THEN PriceText(html, g)
        ELSE PriceText(html, FirstDollarAmount(html))

\* FullReportScraper._extract_all_prices: the report with its four prices
FullReportScraper_extract_all_prices(report, html) ==
    [report EXCEPT !.retail_value = price_of(html, "retail_value"),
                   !.wholesale_value = price_of(html, "wholesale_value"),
                   !.trade_in_value = price_of(html, "trade_in_value"),
                   !.private_party_value = price_of(html, "private_party_value")]

\* the body type: for bt in body_types: if bt in html.upper(): ... break
body_types ==
    <<<<"S", "E", "D", "A", "N">>, <<"S", "U", "V">>, <<"C", "O", "U", "P", "E">>, <<"T", "R", "U", "C", "K">>, <<"V", "A", "N">>, <<"W", "A", "G", "O", "N">>, <<"C", "O", "N", "V", "E", "R", "T", "I", "B", "L", "E">>,
      <<"H", "A", "T", "C", "H", "B", "A", "C", "K">>, <<"4", " ", "D", "R">>, <<"2", " ", "D", "R">>>>

full_body_type(html) == DictGet(first_contained(upper(html), body_types), << >>)

\* r'(\d+\.\d+L\s*[A-Z0-9\s]+(?:DOHC|SOHC)?(?:\s*\d+V)?)' searched in html,
\* case ignored: group 1, stripped.  The run [A-Z0-9\s]+ takes the optional
\* parts with it.
full_engine(html) ==
    LET l == lower(html)
        LitreAt(k) == RunEnd(l, RunEnd(l, k, Digit) + 1, Digit)
        i == First({k \in 1..Len(l) :
                      /\ l[k] \in Digit
                      /\ RunEnd(l, k, Digit) <= Len(l)
                      /\ l[RunEnd(l, k, Digit)] = "."
                      /\ LitreAt(k) > RunEnd(l, k, Digit) + 1
                      /\ LitreAt(k) <= Len(l)
                      /\ l[LitreAt(k)] = "l"
                      /\ RunEnd(l, LitreAt(k) + 1, Alnum \cup White) > LitreAt(k) + 1})
    IN  IF i = 0 THEN << >>
        ELSE strip(SubSeq(html, i, RunEnd(l, LitreAt(i) + 1, Alnum \cup White) - 1))

\* the fuel type: for key, val in fuel_types.items(): if key in html.upper()
full_fuel_types ==
    <<<<<<"G", "A", "S", "O", "L", "I", "N", "E">>, <<"G", "a", "s", "o", "l", "i", "n", "e">>>>, <<<<"D", "I", "E", "S", "E", "L">>, <<"D", "i", "e", "s", "e", "l">>>>,
      <<<<"E", "L", "E", "C", "T", "R", "I", "C">>, <<"E", "l", "e", "c", "t", "r", "i", "c">>>>, <<<<"H", "Y", "B", "R", "I", "D">>, <<"H", "y", "b", "r", "i", "d">>>>>>

RECURSIVE fuel_type_of(_, _)
fuel_type_of(html_upper, types) ==
    IF Len(types) = 0 THEN << >>
    ELSE IF Contains(html_upper, Head(types)[1]) THEN Head(types)[2]
    ELSE fuel_type_of(html_upper, Tail(types))

full_fuel_type(html) == fuel_type_of(upper(html), full_fuel_types)

\* r'(ALL WHEEL DRIVE|FRONT WHEEL DRIVE|REAR WHEEL DRIVE|4WD|AWD|FWD|RWD)'
\* searched in html, case ignored: group 1 as it stands in html
full_drive_types ==
    <<<<"a", "l", "l", " ", "w", "h", "e", "e", "l", " ", "d", "r", "i", "v", "e">>, <<"f", "r", "o", "n", "t", " ", "w", "h", "e", "e", "l", " ", "d", "r", "i", "v", "e">>, <<"r", "e", "a", "r", " ", "w", "h", "e", "e", "l", " ", "d", "r", "i", "v", "e">>, <<"4", "w", "d">>,
      <<"a", "w", "d">>, <<"f", "w", "d">>, <<"r", "w", "d">>>>

full_drive_type(html) ==
    LET l == lower(html)
        AltAt(k) == First({a \in 1..Len(full_drive_types) : At(l, k, full_drive_types[a])})
        i == First({k \in 1..Len(l) : AltAt(k) > 0})
    IN  IF i = 0 THEN << >>
        ELSE SubSeq(html, i, i + Len(full_drive_types[AltAt(i)]) - 1)

\* r'Last\s*owned\s*in\s*([A-Za-z\s]+?)(?:\d|$)' searched in html, case
\* ignored: group 1, stripped.  The letters and blanks after "in" must run
\* up to a digit or to the end of the page.
full_last_state(html) ==
    LET l == lower(html)
        StateAt(k) == WordsAt(l, k, <<<<"l", "a", "s", "t">>, <<"o", "w", "n", "e", "d">>, <<"i", "n">>>>)
        StateEnd(k) == RunEnd(l, StateAt(k), Alpha \cup White)
        i == First({k \in 1..Len(l) :
                      /\ l[k] \notin White
                      /\ StateAt(k) > 0
                      /\ StateEnd(k) > StateAt(k)
                      /\ (StateEnd(k) > Len(l) \/ l[StateEnd(k)] \in Digit)})
    IN  IF i = 0 THEN << >> ELSE strip(SubSeq(html, StateAt(i), StateEnd(i) - 1))

\* the title flags: "No total loss", "No structural damage", "No airbag
\* deployment", "No indication of (an) odometer rollback"
full_total_loss(html) ==
    IF WordsIn(lower(html), <<<<"n", "o">>, <<"t", "o", "t", "a", "l">>, <<"l", "o", "s", "s">>>>)
    THEN <<"N", "o", " ", "I", "s", "s", "u", "e", "s", " ", "R", "e", "p", "o", "r", "t", "e", "d">> ELSE << >>

full_structural_damage(html) ==
    IF WordsIn(lower(html), <<<<"n", "o">>, <<"s", "t", "r", "u", "c", "t", "u", "r", "a", "l">>, <<"d", "a", "m", "a", "g", "e">>>>)
    THEN <<"N", "o", " ", "I", "s", "s", "u", "e", "s", " ", "R", "e", "p", "o", "r", "t", "e", "d">> ELSE << >>

full_airbag_deployment(html) ==
    IF WordsIn(lower(html), <<<<"n", "o">>, <<"a", "i", "r", "b", "a", "g">>, <<"d", "e", "p", "l", "o", "y", "m", "e", "n", "t">>>>)
    THEN <<"N", "o", " ", "I", "s", "s", "u", "e", "s", " ", "R", "e", "p", "o", "r", "t", "e", "d">> ELSE << >>

full_odometer_status(html) ==
    IF \/ WordsIn(lower(html), <<<<"n", "o">>, <<"i", "n", "d", "i", "c", "a", "t", "i", "o", "n">>, <<"o", "f">>, <<"o", "d", "o", "m", "e", "t", "e", "r">>, <<"r", "o", "l", "l", "b", "a", "c", "k">>>>)
       \/ WordsIn(lower(html), <<<<"n", "o">>, <<"i", "n", "d", "i", "c", "a", "t", "i", "o", "n">>, <<"o", "f">>, <<"a", "n">>, <<"o", "d", "o", "m", "e", "t", "e", "r">>, <<"r", "o", "l", "l", "b", "a", "c", "k">>>>)
    THEN <<"N", "o", " ", "I", "s", "s", "u", "e", "s", " ", "I", "n", "d", "i", "c", "a", "t", "e", "d">> ELSE << >>

\* the warranty: "warranty expired", else "warranty" with "active" after it
\* on the same line
full_basic_warranty(html) ==
    IF WordsIn(lower(html), <<<<"w", "a", "r", "r", "a", "n", "t", "y">>, <<"e", "x", "p", "i", "r", "e", "d">>>>) THEN <<"E", "x", "p", "i", "r", "e", "d">>
    ELSE IF LineThen(lower(html), <<"w", "a", "r", "r", "a", "n", "t", "y">>, <<"a", "c", "t", "i", "v", "e">>) THEN <<"A", "c", "t", "i", "v", "e">>
    ELSE << >>

\* r'No\s*(?:open\s*)?recalls?\s*reported'
full_recalls(html) ==
    IF \/ WordsIn(lower(html), <<<<"n", "o">>, <<"r", "e", "c", "a", "l", "l">>, <<"r", "e", "p", "o", "r", "t", "e", "d">>>>)
       \/ WordsIn(lower(html), <<<<"n", "o">>, <<"r", "e", "c", "a", "l", "l", "s">>, <<"r", "e", "p", "o", "r", "t", "e", "d">>>>)
       \/ WordsIn(lower(html), <<<<"n", "o">>, <<"o", "p", "e", "n">>, <<"r", "e", "c", "a", "l", "l">>, <<"r", "e", "p", "o", "r", "t", "e", "d">>>>)
       \/ WordsIn(lower(html), <<<<"n", "o">>, <<"o", "p", "e", "n">>, <<"r", "e", "c", "a", "l", "l", "s">>, <<"r", "e", "p", "o", "r", "t", "e", "d">>>>)
    THEN <<"N", "o", " ", "R", "e", "c", "a", "l", "l", "s", " ", "R", "e", "p", "o", "r", "t", "e", "d">> ELSE << >>

\* the statements of _extract_full_report that search one fixed phrase each
with_vehicle_details(report, html) ==
    [report EXCEPT !.body_type = full_body_type(html),
                   !.engine = full_engine(html),
                   !.fuel_type = full_fuel_type(html),
                   !.drive_type = full_drive_type(html),
                   !.last_state = full_last_state(html),
                   !.total_loss = full_total_loss(html),
                   !.structural_damage = full_structural_damage(html),
                   !.airbag_deployment = full_airbag_deployment(html),
                   !.odometer_status = full_odometer_status(html),
                   !.basic_warranty = full_basic_warranty(html),
                   !.recalls = full_recalls(html)]

\* FullReportScraper._extract_full_report: the report, or the exception of
\* an int() that no except clause of the function catches
FullReportScraper_extract_full_report(vin, doc, hash_order) ==
    LET html == HtmlOf(doc)
        text == TextOf(doc)
        total_owners == full_total_owners(html)
        accidents == full_accidents(html)
        service_records == full_service_records(html)
        history == full_detailed_history(text, DatesIn(html), hash_order)
        report ==
            [FullReportScraper_extract_all_prices(
                 with_vehicle_details(full_year_make_model(FullReport(vin), html), html),
                 html) EXCEPT
                !.total_owners = total_owners.val,
                !.accidents_reported = accidents.val,
                !.service_records_count =
                    IF service_records.val = 0 /\ Len(history) > 0
                    THEN Len(history) ELSE service_records.val,
                !.last_odometer = full_last_odometer(html),
                !.title_status = full_title_status(html),
                !.owners = full_owners(text, 1),
                !.detailed_history = history]
    IN  IF total_owners.exc # "" THEN Raise(total_owners.exc)
        ELSE IF accidents.exc # "" THEN Raise(accidents.exc)
        ELSE IF service_records.exc # "" THEN Raise(service_records.exc)
        ELSE Return(Some(report))

\* ------------------------------------------------------------------------
\* The extractors on their own: a document is fetched once, then the login
\* detector or one of the two assemblers runs on it, and may run on it again,
\* in the same interpreter or in a new one; a field extractor may also be
\* called on the document by itself
\* ------------------------------------------------------------------------
\* a number with one digit more than int() converts
LongDigits == Repeat("9", MaxIntDigits + 1)

\* the elements a document is made of
Fragments ==
    <<Element("text", << >>, <<"2", "0", "0", "8", " ", "B", "M", "W", " ", "3", " ", "S", "E", "R", "I", "E", "S", " ", "3", "2", "8", "X", "I">>),
      Element("div", <<"v", "e", "h", "i", "c", "l", "e", "-", "t", "i", "t", "l", "e">>, <<"2", "0", "0", "8", " ", "B", "M", "W", " ", "3", " ", "S", "E", "R", "I", "E", "S", " ", "3", "2", "8", "X", "I">>),
      Element("text", << >>, <<"2", " ", "P", "r", "e", "v", "i", "o", "u", "s", " ", "o", "w", "n", "e", "r", "s", "\n", "N", "o", " ", "a", "c", "c", "i", "d", "e", "n", "t", "s", " ", "o", "r", " ", "d", "a", "m", "a", "g", "e", " ", "r", "e", "p", "o", "r", "t", "e", "d", "\n", "1", "0", "8", ",", "4", "8", "7", " ", "L", "a", "s", "t", " ", "r", "e", "p", "o", "r", "t", "e", "d", " ", "o", "d", "o", "m", "e", "t", "e", "r", " ", "r", "e", "a", "d", "i", "n", "g", "\n", "G", "u", "a", "r", "a", "n", "t", "e", "e", "d", " ", "N", "o", " ", "P", "r", "o", "b", "l", "e", "m">>),
      Element("text", << >>, <<"3", " ", "a", "c", "c", "i", "d", "e", "n", "t", "s", " ", "r", "e", "p", "o", "r", "t", "e", "d">>),
      Element("text", << >>, <<"1", "0", "8", ",", "4", "8", "7", " ", "L", "a", "s", "t", " ", "r", "e", "p", "o", "r", "t", "e", "d", " ", "o", "d", "o", "m", "e", "t", "e", "r", " ", "r", "e", "a", "d", "i", "n", "g">>),
      Element("text", << >>, <<"5", "0", " ", "L", "a", "s", "t", " ", "r", "e", "p", "o", "r", "t", "e", "d", " ", "o", "d", "o", "m", "e", "t", "e", "r", " ", "r", "e", "a", "d", "i", "n", "g">>),
      Element("text", << >>, <<"1", ",", "1", "0", "8", ",", "4", "8", "7", " ", "L", "a", "s", "t", " ", "r", "e", "p", "o", "r", "t", "e", "d", " ", "o", "d", "o", "m", "e", "t", "e", "r", " ", "r", "e", "a", "d", "i", "n", "g">>),
      Element("text", << >>, <<"4", "5", ",", "0", "0", "0", " ", "m", "i", "l", "e", "s">>),
      Element("text", << >>, <<"G", "u", "a", "r", "a", "n", "t", "e", "e", "d", " ", "N", "o", " ", "P", "r", "o", "b", "l", "e", "m">>),
      Element("text", << >>, <<"s", "a", "l", "v", "a", "g", "e", " ", "t", "i", "t", "l", "e">>),
      Element("text", << >>, <<"A", "n", " ", "U", "n", "e", "x", "p", "e", "c", "t", "e", "d", " ", "E", "r", "r", "o", "r", " ", "H", "a", "s", " ", "O", "c", "c", "u", "r", "r", "e", "d">>),
      Element("div", <<"o", "w", "n", "e", "r">>, LongDigits \o <<" ", "o", "w", "n", "e", "r">>),
      Element("text", << >>, <<"0", "3", "/", "1", "5", "/", "2", "0", "2", "0", " ", "V", "e", "h", "i", "c", "l", "e", " ", "s", "e", "r", "v", "i", "c", "e", "d">>),
      Element("text", << >>, <<"0", "7", "/", "0", "1", "/", "2", "0", "2", "1", " ", "R", "e", "g", "i", "s", "t", "r", "a", "t", "i", "o", "n">>),
      Element("text", << >>, <<"D", "e", "a", "l", "e", "r", " ", "A", "c", "c", "o", "u", "n", "t", " ", "S", "i", "g", "n", " ", "I", "n">>),
      Element("a", <<"/", "l", "o", "g", "i", "n">>, <<"S", "i", "g", "n", " ", "I", "n">>),
      Element("a", <<"/", "l", "o", "g", "o", "u", "t">>, <<"S", "i", "g", "n", " ", "o", "u", "t">>),
      Element("div", <<"l", "a", "n", "d", "i", "n", "g", "P", "a", "g", "e">>, <<"G", "e", "t", " ", "t", "h", "e", " ", "m", "o", "s", "t", " ", "i", "n", "f", "o", " ", "n", "o", "w">>)>>

\* the documents: up to MaxElems of the elements, in the order above
Increasing(n) ==
    {t \in [1..n -> 1..Len(Fragments)] : \A a, b \in 1..n : a < b => t[a] < t[b]}

Documents ==
    UNION {{[k \in 1..n |-> Fragments[t[k]]] : t \in Increasing(n)} : n \in 0..MaxElems}

\* the dates a document can hold, and the orders in which an interpreter
\* may walk a set of them
AllDates == DatesIn(HtmlOf(Fragments))

HashOrders ==
    {o \in [1..Cardinality(AllDates) -> AllDates] :
        \A i, j \in 1..Cardinality(AllDates) : o[i] = o[j] => i = j}

ExtractInput(vin, doc, hash_order) ==
    [vin |-> vin, doc |-> doc, hash_order |-> hash_order]

\* the calls made on the document so far: which function, how many times,
\* what the first call returned and what the latest one did
ExtractOutput(op, runs, first, last) ==
    [op |-> op, runs |-> runs, first |-> first, last |-> last]

MayRun(op) ==
    IF IsNone(ex_out) THEN TRUE
    ELSE ex_out[1].op = op /\ ex_out[1].runs = 1

Ran(op, result) ==
    IF IsNone(ex_out) THEN Some(ExtractOutput(op, 1, result, result))
    ELSE Some(ExtractOutput(op, ex_out[1].runs + 1, ex_out[1].first, result))

IsLoginRequired ==
    /\ MayRun("_is_login_required")
    /\ ex_out' = Ran("_is_login_required",
                     VehicleHistoryScraper_is_login_required(HtmlOf(ex_in[1].doc)))
    /\ UNCHANGED ex_in
    /\ UNCHANGED <<now, tokenVars, cookieVars, vinVars, runVars, tdVars, rfVars>>

ExtractAccidents ==
    /\ MayRun("_extract_accidents")
    /\ ex_out' = Ran("_extract_accidents",
                     VehicleHistoryScraper_extract_accidents(HtmlOf(ex_in[1].doc), ex_in[1].doc))
    /\ UNCHANGED ex_in
    /\ UNCHANGED <<now, tokenVars, cookieVars, vinVars, runVars, tdVars, rfVars>>

ExtractMileage ==
    /\ MayRun("_extract_mileage")
    /\ ex_out' = Ran("_extract_mileage",
                     VehicleHistoryScraper_extract_mileage(HtmlOf(ex_in[1].doc), ex_in[1].doc))
    /\ UNCHANGED ex_in
    /\ UNCHANGED <<now, tokenVars, cookieVars, vinVars, runVars, tdVars, rfVars>>

ExtractTitleStatus ==
    /\ MayRun("_extract_title_status")
    /\ ex_out' = Ran("_extract_title_status",
                     VehicleHistoryScraper_extract_title_status(HtmlOf(ex_in[1].doc), ex_in[1].doc))
    /\ UNCHANGED ex_in
    /\ UNCHANGED <<now, tokenVars, cookieVars, vinVars, runVars, tdVars, rfVars>>

ExtractReportData ==
    /\ MayRun("_extract_report_data")
    /\ ex_out' = Ran("_extract_report_data",
                     VehicleHistoryScraper_extract_report_data(ex_in[1].vin, ex_in[1].doc))
    /\ UNCHANGED ex_in
    /\ UNCHANGED <<now, tokenVars, cookieVars, vinVars, runVars, tdVars, rfVars>>

ExtractFullReport ==
    /\ MayRun("_extract_full_report")
    /\ ex_out' = Ran("_extract_full_report",
                     FullReportScraper_extract_full_report(
                         ex_in[1].vin, ex_in[1].doc, ex_in[1].hash_order))
    /\ UNCHANGED ex_in
    /\ UNCHANGED <<now, tokenVars, cookieVars, vinVars, runVars, tdVars, rfVars>>

\* the next call is made by another interpreter process, whose string hashes
\* are seeded anew
NewInterpreter ==
    /\ \E o \in HashOrders :
        /\ o # ex_in[1].hash_order
        /\ ex_in' = Some([ex_in[1] EXCEPT !.hash_order = o])
    /\ UNCHANGED ex_out
    /\ UNCHANGED <<now, tokenVars, cookieVars, vinVars, runVars, tdVars, rfVars>>

ExtractInit ==
    /\ now = 0
    /\ TokenIdle
    /\ CookieIdle
    /\ VinIdle
    /\ RunIdle
    /\ TokenDataIdle
    /\ RefreshIdle
    /\ ex_in \in {Some(ExtractInput(StrOf17, doc, o)) :
                    doc \in Documents, o \in HashOrders}
    /\ ex_out = None

ExtractNext ==
    \/ IsLoginRequired
    \/ ExtractAccidents
    \/ ExtractMileage
    \/ ExtractTitleStatus
    \/ ExtractReportData
    \/ ExtractFullReport
    \/ NewInterpreter

SpecExtract == ExtractInit /\ [][ExtractNext]_vars

\* ------------------------------------------------------------------------
\* _extract_all_prices on its own: the pages are made of price fragments,
\* in any order, and the function is called on a page once or twice
\* ------------------------------------------------------------------------
PriceFragments ==
    <<Element("text", << >>, <<"{", "\"", "c", "a", "r", "f", "a", "x", "P", "r", "i", "c", "e", "\"", ":", "\"", "$", "1", "2", ",", "5", "0", "0", "\"", "}">>),
      Element("text", << >>, <<"{", "\"", "r", "e", "t", "a", "i", "l", "P", "r", "i", "c", "e", "\"", ":", " ", "\"", "9", ",", "0", "0", "0", "\"", "}">>),
      Element("text", << >>, <<"{", "\"", "v", "a", "l", "u", "e", "\"", ":", "\"", "$", "7", ",", "0", "0", "0", "\"", ",", "\"", "t", "e", "x", "t", "\"", ":", "\"", "C", "A", "R", "F", "A", "X", " ", "R", "e", "t", "a", "i", "l", " ", "V", "a", "l", "u", "e", "\"", "}">>),
      Element("text", << >>, <<"C", "A", "R", "F", "A", "X", " ", "R", "e", "t", "a", "i", "l", " ", "V", "a", "l", "u", "e", ":", " ", "$", "1", "1", ",", "0", "0", "0">>),
      Element("text", << >>, <<"$", "8", ",", "0", "0", "0", " ", "C", "A", "R", "F", "A", "X", " ", "R", "e", "t", "a", "i", "l">>),
      Element("text", << >>, <<"\"", "w", "h", "o", "l", "e", "s", "a", "l", "e", "P", "r", "i", "c", "e", "\"", ":", "\"", "$", "5", ",", "2", "0", "0", "\"">>),
      Element("text", << >>, <<"W", "h", "o", "l", "e", "s", "a", "l", "e", " ", "V", "a", "l", "u", "e", ":", " ", "$", "5", ",", "0", "0", "0">>),
      Element("text", << >>, <<"$", "5", ",", "1", "0", "0", " ", "W", "h", "o", "l", "e", "s", "a", "l", "e">>),
      Element("text", << >>, <<"\"", "t", "r", "a", "d", "e", "I", "n", "P", "r", "i", "c", "e", "\"", " ", ":", " ", "\"", "4", ",", "4", "0", "0", "\"">>),
      Element("text", << >>, <<"T", "r", "a", "d", "e", "-", "I", "n", " ", "V", "a", "l", "u", "e", ":", " ", "$", "4", ",", "0", "0", "0">>),
      Element("text", << >>, <<"$", "4", ",", "3", "0", "0", " ", "T", "r", "a", "d", "e", " ", "I", "n">>),
      Element("text", << >>, <<"\"", "p", "r", "i", "v", "a", "t", "e", "P", "a", "r", "t", "y", "P", "r", "i", "c", "e", "\"", ":", "\"", "$", "3", ",", "2", "0", "0", "\"">>),
      Element("text", << >>, <<"P", "r", "i", "v", "a", "t", "e", " ", "P", "a", "r", "t", "y", " ", "V", "a", "l", "u", "e", ":", " ", "$", "3", ",", "0", "0", "0">>),
      Element("text", << >>, <<"$", "3", ",", "1", "0", "0", " ", "P", "r", "i", "v", "a", "t", "e", " ", "P", "a", "r", "t", "y">>),
      Element("text", << >>, <<"P", "r", "i", "c", "e", ":", " ", "$", "1", ",", "2", "3", "4">>),
      Element("text", << >>, <<"2", " ", "P", "r", "e", "v", "i", "o", "u", "s", " ", "o", "w", "n", "e", "r", "s">>)>>

\* the pages: up to MaxElems of the fragments, each at most once, in any
\* order
PriceDocuments ==
    UNION {{[k \in 1..n |-> PriceFragments[t[k]]] :
              t \in {u \in [1..n -> 1..Len(PriceFragments)] :
                        \A a, b \in 1..n : u[a] = u[b] => a = b}} :
           n \in 0..MaxElems}

ExtractAllPrices ==
    /\ MayRun("_extract_all_prices")
    /\ ex_out' = Ran("_extract_all_prices",
                     FullReportScraper_extract_all_prices(FullReport(ex_in[1].vin),
                                                          HtmlOf(ex_in[1].doc)))
    /\ UNCHANGED ex_in
    /\ UNCHANGED <<now, tokenVars, cookieVars, vinVars, runVars, tdVars, rfVars>>

PricesInit ==
    /\ now = 0
    /\ TokenIdle
    /\ CookieIdle
    /\ VinIdle
    /\ RunIdle
    /\ TokenDataIdle
    /\ RefreshIdle
    /\ ex_in \in {Some(ExtractInput(StrOf17, doc, << >>)) : doc \in PriceDocuments}
    /\ ex_out = None

PricesNext == ExtractAllPrices

SpecPrices == PricesInit /\ [][PricesNext]_vars

\* ------------------------------------------------------------------------
\* The dated events of _extract_full_report: the pages are made of dated
\* lines, in any order, and the set of their dates is walked in any order
\* ------------------------------------------------------------------------
HistoryFragments ==
    <<Element("text", << >>, <<"0", "3", "/", "1", "5", "/", "2", "0", "2", "0", " ", "V", "e", "h", "i", "c", "l", "e", " ", "s", "e", "r", "v", "i", "c", "e", "d">>),
      Element("text", << >>, <<"0", "3", "/", "1", "5", "/", "2", "0", "2", "0", " ", "O", "i", "l", " ", "a", "n", "d", " ", "f", "i", "l", "t", "e", "r", " ", "c", "h", "a", "n", "g", "e", "d", " ", "1", "2", ",", "0", "0", "0", " ", "m", "i", "l", "e", "s">>),
      Element("text", << >>, <<"0", "7", "/", "0", "1", "/", "2", "0", "2", "1", " ", "R", "e", "g", "i", "s", "t", "r", "a", "t", "i", "o", "n", " ", "r", "e", "n", "e", "w", "e", "d", ",", " ", "t", "i", "r", "e", " ", "r", "o", "t", "a", "t", "i", "o", "n">>),
      Element("text", << >>, <<"1", "1", "/", "3", "0", "/", "2", "0", "1", "9", " ", "O", "d", "o", "m", "e", "t", "e", "r", " ", "r", "e", "a", "d", "i", "n", "g", " ", "9", ",", "5", "0", "0">>),
      Element("a", <<"/", "h", "i", "s", "t", "o", "r", "y", "?", "s", "i", "n", "c", "e", "=", "1", "1", "/", "3", "0", "/", "2", "0", "1", "9">>, <<"F", "u", "l", "l", " ", "h", "i", "s", "t", "o", "r", "y">>),
      Element("text", << >>, <<"1", "2", " ", "S", "e", "r", "v", "i", "c", "e", " ", "h", "i", "s", "t", "o", "r", "y", " ", "r", "e", "c", "o", "r", "d", "s">>),
      Element("text", << >>, <<"O", "f", "f", "e", "r", "e", "d", " ", "f", "o", "r", " ", "s", "a", "l", "e">>)>>

HistoryDocuments ==
    UNION {{[k \in 1..n |-> HistoryFragments[t[k]]] :
              t \in {u \in [1..n -> 1..Len(HistoryFragments)] :
                        \A a, b \in 1..n : u[a] = u[b] => a = b}} :
           n \in 0..MaxElems}

HistoryDates == DatesIn(HtmlOf(HistoryFragments))

HistoryHashOrders ==
    {o \in [1..Cardinality(HistoryDates) -> HistoryDates] :
        \A i, j \in 1..Cardinality(HistoryDates) : o[i] = o[j] => i = j}

HistoryInit ==
    /\ now = 0
    /\ TokenIdle
    /\ CookieIdle
    /\ VinIdle
    /\ RunIdle
    /\ TokenDataIdle
    /\ RefreshIdle
    /\ ex_in \in {Some(ExtractInput(StrOf17, doc, o)) :
                    doc \in HistoryDocuments, o \in HistoryHashOrders}
    /\ ex_out = None

HistoryNext == ExtractFullReport

SpecHistory == HistoryInit /\ [][HistoryNext]_vars

\* ------------------------------------------------------------------------
\* TokenManager.set_tokens and CookieManager.update_from_playwright called
\* from threads, statement by statement, with a reader of the credentials.
\* Neither class holds a lock, so a thread may be switched out between any
\* two statements.  threads[w].line is the source line the thread is about
\* to run, 0 when it is in no call.
\* ------------------------------------------------------------------------
REFRESH_NOW == 3301

\* dicts handed to set_tokens: a token response, and the content of a
\* tokens file, which carries the created_at of the time it was written
RefreshData ==
    {MkData(TokenFields \ {"created_at"}, 1, Some(3600), Some(0)),
     MkData(TokenFields, 1, Some(3600), Some(0))}

RefreshCookieNames == <<AUTH_COOKIES[1], OTHER_COOKIE>>

\* the cookies of the browser context after a login, one cookie a call
RefreshCookies ==
    {<<Cookie(RefreshCookieNames[k], v, ".carfaxonline.com", "/", None)>> :
        k \in 1..Len(RefreshCookieNames), v \in {"true", "false"}}

AtLine(w, line) == threads[w].line = line

Goto(w, line) == [threads EXCEPT ![w].line = line]

\* a thread enters set_tokens(data)
set_tokens_call(w) ==
    /\ AtLine(w, 0)
    /\ \E data \in RefreshData :
          threads' = [threads EXCEPT ![w] = [line |-> 157, data |-> data, cookies |-> << >>]]
    /\ UNCHANGED <<now, tokenVars, cookieVars, vinVars, runVars, tdVars, exVars>>
    /\ observed' = NoRead

\* self._token_data = TokenData.from_dict(data)
set_tokens_from_dict(w) ==
    /\ AtLine(w, 157)
    /\ token_data' = Some(from_dict(threads[w].data, now))
    /\ threads' = Goto(w, 158)
    /\ UNCHANGED <<now, tokens_file, fs_mode, tok_call, tok_obs>>
    /\ UNCHANGED <<cookieVars, vinVars, runVars, tdVars, exVars>>
    /\ observed' = NoRead

\* self._token_data.created_at = time.time(), on the object held by then
set_tokens_created_at(w) ==
    /\ AtLine(w, 158)
    /\ token_data' = Some([token_data[1] EXCEPT !.created_at = Some(now)])
    /\ threads' = Goto(w, 159)
    /\ UNCHANGED <<now, tokens_file, fs_mode, tok_call, tok_obs>>
    /\ UNCHANGED <<cookieVars, vinVars, runVars, tdVars, exVars>>
    /\ observed' = NoRead

\* self.save()
set_tokens_save(w) ==
    /\ AtLine(w, 159)
    /\ tokens_file' = save_result(token_data, fs_mode, tokens_file)[1]
    /\ threads' = [threads EXCEPT ![w] = NoThread]
    /\ UNCHANGED <<now, token_data, fs_mode, tok_call, tok_obs>>
    /\ UNCHANGED <<cookieVars, vinVars, runVars, tdVars, exVars>>
    /\ observed' = NoRead

\* a thread enters update_from_playwright(cookies)
update_from_playwright_call(w) ==
    /\ AtLine(w, 0)
    /\ \E cookies \in RefreshCookies :
          threads' = [threads EXCEPT ![w] = [line |-> 190, data |-> EmptyData, cookies |-> cookies]]
    /\ UNCHANGED <<now, tokenVars, cookieVars, vinVars, runVars, tdVars, exVars>>
    /\ observed' = NoRead

\* one round of the loop: self.cookie_jar.set_cookie(cookie)
update_from_playwright_set_cookie(w) ==
    /\ AtLine(w, 190)
    /\ cookie_jar' = set_cookie(cookie_jar, FromPlaywright(Head(threads[w].cookies)))
    /\ Len(cookie_jar') <= MaxJar
    /\ threads' = [threads EXCEPT ![w].cookies = Tail(threads[w].cookies),
                                  ![w].line = IF Len(threads[w].cookies) = 1 THEN 214 ELSE 190]
    /\ UNCHANGED <<now, cookies_dict, cookies_file, ck_call, ck_obs>>
    /\ UNCHANGED <<tokenVars, vinVars, runVars, tdVars, exVars>>
    /\ observed' = NoRead

\* after the loop: self._cookies_dict = {cookie.name: cookie.value ...}
update_from_playwright_dict(w) ==
    /\ AtLine(w, 214)
    /\ cookies_dict' = DictOf(cookie_jar)
    /\ threads' = [threads EXCEPT ![w] = NoThread]
    /\ UNCHANGED <<now, cookie_jar, cookies_file, ck_call, ck_obs>>
    /\ UNCHANGED <<tokenVars, vinVars, runVars, tdVars, exVars>>
    /\ observed' = NoRead

\* a reader: is_valid (with it access_token and get_auth_header) and
\* is_session_valid, on the credentials as they are at this instant
read_credentials ==
    /\ observed' = [seen |-> TRUE, token_data |-> token_data,
                    is_valid |-> is_valid(token_data, now),
                    cookie_jar |-> cookie_jar, cookies_dict |-> cookies_dict,
                    session_valid |-> is_session_valid(cookies_dict, cookie_jar, now)]
    /\ ~observed.seen
    /\ UNCHANGED <<now, tokenVars, cookieVars, vinVars, runVars, tdVars, exVars, threads>>

\* the credentials held when the threads start: a token loaded from a file
\* or none, a jar with its mapping
RefreshInit ==
    /\ now = REFRESH_NOW
    /\ token_data \in {None, Some(from_dict(MkData(TokenFields, 0, Some(3600), Some(REFRESH_NOW)), REFRESH_NOW))}
    /\ tokens_file = File("missing", EmptyData)
    /\ fs_mode = "ok"
    /\ tok_call = NoCall
    /\ tok_obs = NoObs
    /\ cookie_jar \in {<< >>} \cup {MapFromPlaywright(cs) : cs \in RefreshCookies}
    /\ cookies_dict = DictOf(cookie_jar)
    /\ cookies_file = CookieFile("missing", << >>)
    /\ ck_call = NoCookieCall
    /\ ck_obs = NoCookieObs
    /\ VinIdle
    /\ RunIdle
    /\ TokenDataIdle
    /\ ExtractIdle
    /\ RefreshIdle

RefreshNext ==
    \/ \E w \in Threads : set_tokens_call(w)
    \/ \E w \in Threads : set_tokens_from_dict(w)
    \/ \E w \in Threads : set_tokens_created_at(w)
    \/ \E w \in Threads : set_tokens_save(w)
    \/ \E w \in Threads : update_from_playwright_call(w)
    \/ \E w \in Threads : update_from_playwright_set_cookie(w)
    \/ \E w \in Threads : update_from_playwright_dict(w)
    \/ read_credentials

SpecRefresh == RefreshInit /\ [][RefreshNext]_vars


\* ------------------------------------------------------------------------
\* Properties of the token session
\* ------------------------------------------------------------------------
HeldNumeric ==
    /\ ~IsNone(token_data)
    /\ ~IsNone(token_data[1].created_at)
    /\ ~IsNone(token_data[1].expires_in)

Elapsed(t) == t - token_data[1].created_at[1]

\* C1: a read of is_valid on a token created at t0 with an integer expires_in
\* gives true iff a token is held and now - t0 < expires_in - 300, is_expired
\* being its negation; with expires_in = 3600 the token is valid at t0 + 3299
\* and invalid at t0 + 3300 and at t0 + 3301.
C1_TokenValidity ==
    tok_obs.seen =>
        /\ IsNone(token_data) => tok_obs.is_valid = "False"
        /\ HeldNumeric =>
            /\ tok_obs.is_valid \in {"True", "False"}
            /\ tok_obs.is_valid = "True"
                  <=> Elapsed(tok_obs.at) < token_data[1].expires_in[1] - 300
            /\ tok_obs.is_expired = "True" <=> tok_obs.is_valid = "False"
            /\ tok_obs.is_expired = "False" <=> tok_obs.is_valid = "True"
            /\ token_data[1].expires_in[1] = 3600 =>
                /\ Elapsed(tok_obs.at) = 3299 => tok_obs.is_valid = "True"
                /\ Elapsed(tok_obs.at) \in {3300, 3301} => tok_obs.is_valid = "False"

C1_Witness ==
    /\ tok_obs.seen
    /\ HeldNumeric
    /\ token_data[1].expires_in[1] = 3600
    /\ Elapsed(tok_obs.at) = 3300
    /\ tok_obs.is_valid = "False"

\* C7: TokenManager.load returns to its caller in every case, with False when
\* the file is missing, unreadable, not a JSON object or holds a token that is
\* expired (inside the 300 s margin) at load time; it returns True only when
\* the token of the file is held and is not expired at load time.
C7_TokenLoadSoft ==
    tok_call.op = "load" =>
        /\ tok_call.ret \in {"True", "False"}
        /\ tokens_file.kind # "json" => tok_call.ret = "False"
        /\ tok_call.ret = "True" =>
            /\ tokens_file.kind = "json"
            /\ HeldNumeric
            /\ \A k \in StrFields \cup {"expires_in"} :
                  Len(tokens_file.data[k]) > 0 => token_data[1][k] = tokens_file.data[k][1]
            /\ Elapsed(tok_call.at) < token_data[1].expires_in[1] - 300
        /\ (tokens_file.kind = "json" /\ HeldNumeric
              /\ Elapsed(tok_call.at) >= token_data[1].expires_in[1] - 300)
            => tok_call.ret = "False"

C7_Witness ==
    /\ tok_call.op = "load"
    /\ tokens_file.kind = "json"
    /\ HeldNumeric
    /\ Elapsed(tok_call.at) >= token_data[1].expires_in[1] - 300
    /\ Elapsed(tok_call.at) < token_data[1].expires_in[1]
    /\ tok_call.ret = "False"

\* what set_tokens(data) must leave in a field: the value of data, else the default
FieldFromNew(data, k) ==
    IF Len(data[k]) > 0 THEN data[k][1]
    ELSE CASE k = "expires_in" -> Some(86400)
           [] k = "token_type" -> "Bearer"
           [] k = "scope"      -> "openid profile email offline_access"
           [] OTHER            -> ""

HeldIsNew ==
    /\ ~IsNone(token_data)
    /\ \A k \in StrFields \cup {"expires_in"} :
          token_data[1][k] = FieldFromNew(tok_call.data, k)
    /\ token_data[1].created_at = Some(tok_call.at)

IsAuthCookie(c) == \E a \in 1..Len(AUTH_COOKIES) : c.name = AUTH_COOKIES[a]

\* a cookie that carries no expiry (the Netscape file writes 0 for a session cookie)
NoExpiry(c) == IsNone(c.expires) \/ c.expires = Some(0)

Unexpired(c, t) == NoExpiry(c) \/ c.expires[1] > t

InSeq(x, seq) == \E i \in 1..Len(seq) : seq[i] = x

\* C2: is_session_valid returns true iff the jar holds an authentication
\* cookie whose value is "true" (case-insensitively) and which itself has no
\* expiry or an expiry strictly after the time of the call.
C2_SessionValidSameCookie ==
    ck_obs.seen =>
        (ck_obs.valid <=>
            \E i \in 1..Len(cookie_jar) :
                /\ IsAuthCookie(cookie_jar[i])
                /\ Lower(cookie_jar[i].value) = "true"
                /\ Unexpired(cookie_jar[i], ck_obs.at))

FileParsed == cookies_file.kind = "ok"

FileAuthExpiredAt(t) ==
    \E i \in 1..Len(cookies_file.cookies) :
        /\ IsAuthCookie(cookies_file.cookies[i])
        /\ ~Unexpired(cookies_file.cookies[i], t)

\* C8 as stated: CookieManager.load returns False when the file is missing,
\* malformed or holds expired credentials, and True only when unexpired
\* credentials were loaded.
C8_Original ==
    ck_call.op = "load" =>
        /\ ck_call.ret \in {"True", "False"}
        /\ ~FileParsed => ck_call.ret = "False"
        /\ FileAuthExpiredAt(ck_call.at) => ck_call.ret = "False"

\* C8 amended: CookieManager.load returns to its caller in every case, with
\* False when the file is missing, unreadable or malformed, and with True
\* whenever the file was parsed, whether or not its authentication cookie is
\* expired; after a True the name-to-value mapping is that of the jar.
C8_CookieLoadSoft ==
    ck_call.op = "load" =>
        /\ ck_call.ret \in {"True", "False"}
        /\ ~FileParsed => ck_call.ret = "False"
        /\ FileParsed => ck_call.ret = "True" /\ cookies_dict = DictOf(cookie_jar)

C8_Witness ==
    /\ ck_call.op = "load"
    /\ FileParsed
    /\ FileAuthExpiredAt(ck_call.at)
    /\ ck_call.ret = "True"

\* C10: after update_from_playwright(new), or after a load that parsed the
\* file, the jar and the name-to-value mapping hold only cookies of the new set.
C10_RefreshReplaces ==
    /\ ck_call.op = "update" =>
        /\ \A i \in 1..Len(cookie_jar) :
              InSeq(cookie_jar[i], MapFromPlaywright(ck_call.arg))
        /\ \A n \in CookieNames :
              Len(cookies_dict[n]) > 0 =>
                  \E i \in 1..Len(ck_call.arg) : ck_call.arg[i].name = n
    /\ (ck_call.op = "load" /\ ck_call.ret = "True") =>
        /\ \A i \in 1..Len(cookie_jar) : InSeq(cookie_jar[i], cookies_file.cookies)
        /\ \A n \in CookieNames :
              Len(cookies_dict[n]) > 0 =>
                  \E i \in 1..Len(cookies_file.cookies) : cookies_file.cookies[i].name = n

\* ------------------------------------------------------------------------
\* Properties of the VIN validator
\* ------------------------------------------------------------------------
LeadingBlanks(s) ==
    IF \A k \in 1..Len(s) : s[k] = " " THEN Len(s)
    ELSE (CHOOSE k \in 1..Len(s) : s[k] # " " /\ \A j \in 1..(k-1) : s[j] = " ") - 1

TrailingBlanks(s) ==
    IF \A k \in 1..Len(s) : s[k] = " " THEN 0
    ELSE Len(s) - (CHOOSE k \in 1..Len(s) : s[k] # " " /\ \A j \in (k+1)..Len(s) : s[j] = " ")

TrimmedLen(s) == Len(s) - LeadingBlanks(s) - TrailingBlanks(s)

HasIOQ(s) == \E k \in 1..Len(s) : s[k] \in {"i", "I", "o", "O", "q", "Q"}

\* C3: each validator accepts a string iff, trimmed and uppercased, it has
\* exactly 17 characters and none of I, O, Q: any other length is rejected,
\* any string with i/I, o/O or q/Q is rejected whatever its length, and the
\* two validators agree.
C3_VinValidator ==
    vin_res.done =>
        /\ vin_res.browser <=> (TrimmedLen(vin_in) = 17 /\ ~HasIOQ(vin_in))
        /\ vin_res.api <=> (TrimmedLen(vin_in) = 17 /\ ~HasIOQ(vin_in))
        /\ TrimmedLen(vin_in) # 17 => ~vin_res.browser /\ ~vin_res.api
        /\ HasIOQ(vin_in) => ~vin_res.browser /\ ~vin_res.api
        /\ vin_res.browser = vin_res.api

C3_Witness ==
    /\ vin_res.done
    /\ Len(vin_in) > 17
    /\ TrimmedLen(vin_in) = 17
    /\ \E k \in 1..Len(vin_in) : vin_in[k] = "a"
    /\ ~HasIOQ(vin_in)
    /\ vin_res.browser
    /\ vin_res.api

\* ------------------------------------------------------------------------
\* Properties of TokenData (checked under SpecTokenData)
\* ------------------------------------------------------------------------
\* the object has a creation time and a numeric lifetime
TdNumeric == ~IsNone(td_obj[1].created_at) /\ ~IsNone(td_obj[1].expires_in)

\* expires_in - elapsed, in 1/(MaxSub+1) s
RemainingParts ==
    (td_obj[1].expires_in[1] - (now - td_obj[1].created_at[1])) * (MaxSub + 1) - now_sub

\* C11 as stated: time_remaining is a non-negative integer equal to
\* max(0, expires_in - elapsed); it is 0 at or after created_at + expires_in
\* and positive while that instant is still ahead, also in the last 300
\* seconds, in which is_expired is already true.
C11_Original ==
    (td_res.op = "read" /\ TdNumeric) =>
        /\ td_res.time_remaining[1] \in Nat
        /\ td_res.time_remaining[1] * (MaxSub + 1) = Max(0, RemainingParts)
        /\ RemainingParts <= 0 => td_res.time_remaining[1] = 0
        /\ RemainingParts > 0 => td_res.time_remaining[1] > 0

\* C11 amended: for a token with a creation time and an integer expires_in,
\* time_remaining is max(0, expires_in - elapsed) rounded down to whole
\* seconds: a non-negative integer, 0 from one second before
\* created_at + expires_in on, and positive before that, also during the part
\* of the last 300 seconds in which is_expired is already true.
C11_TimeRemainingFloor ==
    (td_res.op = "read" /\ TdNumeric) =>
        /\ td_res.time_remaining[1] \in Nat
        /\ RemainingParts < MaxSub + 1 => td_res.time_remaining[1] = 0
        /\ RemainingParts >= MaxSub + 1 =>
              /\ td_res.time_remaining[1] > 0
              /\ td_res.time_remaining[1] * (MaxSub + 1) <= RemainingParts
              /\ (td_res.time_remaining[1] + 1) * (MaxSub + 1) > RemainingParts

\* read between two whole seconds, in the last 300 seconds: is_expired is
\* true and more than a second remains
C11_Witness ==
    /\ td_res.op = "read"
    /\ TdNumeric
    /\ now_sub > 0
    /\ td_res.is_expired = "True"
    /\ td_res.time_remaining[1] > 0
    /\ td_res.time_remaining[1] * (MaxSub + 1) < RemainingParts

\* C12: TokenData.from_dict(t.to_dict()) is equivalent to t, also for a t
\* whose created_at is None: the seven fields are equal and is_expired gives
\* the same result on both at the same instant.
C12_RoundTrip ==
    td_res.op = "round_trip" =>
        /\ td_res.copy = td_obj
        /\ td_res.copy_is_expired = td_res.is_expired

\* ------------------------------------------------------------------------
\* Properties of the entry points (checked under SpecRun)
\* ------------------------------------------------------------------------
Rejected(vin) == ~VehicleHistoryScraper_validate_vin(vin)

NoFetch(call) == ~call.launched /\ call.navs = 0 /\ call.http = 0

AllAbsent(report) ==
    /\ \A f \in ReportFields : report[f] = None
    /\ report.damage_reported = FALSE
    /\ report.raw_data = None

\* C4: VehicleHistoryScraper.get_report and CarfaxAPIScraper.get_report,
\* called with a VIN the validator rejects, return a report whose error is set
\* and whose extracted fields are all absent, and the call launches no
\* browser, navigates to no page and sends no HTTP request; in the API
\* scraper the VIN error is reported even when the token is invalid too.
C4_InvalidVinShortCircuits ==
    entry_point \in ApiEntries \cup BrowserEntries =>
        \A i \in 1..Len(reports) :
            Rejected(reports[i].vin) =>
                /\ reports[i].vin = vins[i]
                /\ reports[i].error = Some(ERR_INVALID_VIN)
                /\ AllAbsent(reports[i])
                /\ NoFetch(calls[i])

\* an API run has answered a rejected VIN while its token was invalid, after
\* having fetched a report for a VIN the validator accepts
C4_Witness ==
    /\ entry_point \in ApiEntries
    /\ Len(reports) = 2
    /\ ~Rejected(vins[1])
    /\ calls[1].http > 0
    /\ IsNone(reports[1].error)
    /\ Rejected(vins[2])
    /\ is_valid(token_data, calls[2].at) = "False"
    /\ reports[2].error = Some(ERR_INVALID_VIN)

\* C5: FullReportScraper.scrape_report, called with an invalid VIN, returns
\* an error report without launching the browser or navigating to any
\* report URL.
C5_FullReportShortCircuits ==
    entry_point = "scrape_full_report" =>
        \A i \in 1..Len(reports) :
            Rejected(reports[i].vin) =>
                /\ reports[i].error # ""
                /\ NoFetch(calls[i])

\* C6: the credential gate precedes every fetch: get_report of the API
\* scraper sends no HTTP request and returns an error report when is_valid is
\* false at the time of the call; _run_scraper in API mode starts no fetch
\* when TokenManager.load returned False; in browser mode no scrape starts
\* unless ensure_authenticated returned True; and ensure_authenticated calls
\* login exactly when the loaded session is not valid, returning True without
\* a login when it is valid.
C6_CredentialGate ==
    /\ entry_point \in ApiEntries =>
          \A i \in 1..Len(reports) :
              is_valid(token_data, calls[i].at) = "False" =>
                  /\ calls[i].http = 0
                  /\ ~IsNone(reports[i].error)
    /\ entry_point = "run_api" /\ gate = "False" =>
          /\ reports = << >>
          /\ calls = << >>
          /\ pc = "done"
    /\ entry_point = "run_browser" /\ (pc = "loop" \/ Len(reports) > 0) =>
          /\ auth.called
          /\ auth.ret = "True"
    /\ auth.called =>
          /\ auth.login_calls > 0 <=> ~auth.session_valid
          /\ auth.session_valid => auth.ret = "True" /\ ~auth.browser

\* an API run fetched one report while its token was valid and refused the
\* next VIN, a valid one, after the token had expired
C6_Witness ==
    /\ entry_point = "run_api"
    /\ gate = "True"
    /\ Len(reports) = 2
    /\ ~Rejected(vins[1]) /\ ~Rejected(vins[2])
    /\ calls[1].http > 0
    /\ is_valid(token_data, calls[2].at) = "False"
    /\ calls[2].http = 0
    /\ reports[2].error = Some(ERR_TOKEN_INVALID)

\* ------------------------------------------------------------------------
\* Properties of the extractors
\* ------------------------------------------------------------------------
Html == HtmlOf(ex_in[1].doc)

HtmlLower == lower(HtmlOf(ex_in[1].doc))

Called(op) == ~IsNone(ex_out) /\ ex_out[1].op = op

\* C13: in _extract_report_data, when one field extractor raises, the error
\* is set to the extraction-error message and every other extractor still
\* runs and populates its field, the ones ordered after the failing one
\* included.
C13_ExtractorsIndependent ==
    Called("_extract_report_data") /\ ~Contains(HtmlLower, SITE_ERROR_MARKER) =>
        LET report == ex_out[1].last
            soup == ex_in[1].doc
            ymm == VehicleHistoryScraper_extract_year_make_model(Html, soup)
            owners == VehicleHistoryScraper_extract_owners(Html, soup)
            accidents == VehicleHistoryScraper_extract_accidents(Html, soup)
            service_records == VehicleHistoryScraper_extract_service_records(Html, soup)
            mileage == VehicleHistoryScraper_extract_mileage(Html, soup)
            title_status == VehicleHistoryScraper_extract_title_status(Html, soup)
            raw_data == VehicleHistoryScraper_extract_additional_data(Html, soup)
            raised == \E exc \in {ymm.exc, owners.exc, accidents.exc, service_records.exc,
                                   mileage.exc, title_status.exc, raw_data.exc} : exc # ""
        IN  /\ report.error = (IF raised THEN Some(ERR_EXTRACT) ELSE None)
            /\ ymm.exc = "" /\ ~IsNone(ymm.val) =>
                   /\ report.year = ymm.val[1].year
                   /\ report.make = ymm.val[1].make
                   /\ report.model = ymm.val[1].model
                   /\ report.trim = ymm.val[1].trim
            /\ owners.exc = "" => report.owners = owners.val
            /\ accidents.exc = "" => report.accidents = accidents.val
            /\ service_records.exc = "" => report.service_records = service_records.val
            /\ mileage.exc = "" => report.mileage = mileage.val
            /\ title_status.exc = "" => report.title_status = title_status.val
            /\ raw_data.exc = "" => report.raw_data = raw_data.val

\* C14: a document that holds the site-level marker "unexpected error has
\* occurred", in any case, gives a report whose error is the site error and
\* whose extracted fields are all absent and raw_data empty, whatever else
\* the document holds: no extractor runs on it, so none of them can fail.
C14_SiteErrorFastPath ==
    Called("_extract_report_data") /\ Contains(HtmlLower, SITE_ERROR_MARKER) =>
        /\ ex_out[1].last.error = Some(ERR_SITE)
        /\ AllAbsent(ex_out[1].last)
        /\ ex_out[1].last.vin = ex_in[1].vin

C14_Witness ==
    /\ Called("_extract_report_data")
    /\ Contains(HtmlLower, SITE_ERROR_MARKER)
    /\ ~Contains(Html, SITE_ERROR_MARKER)
    /\ ~AllAbsent(extract_fields(ex_in[1].vin, Html, ex_in[1].doc))
    /\ AllAbsent(ex_out[1].last)

\* C15: _is_login_required is true exactly when the lower-cased document
\* holds the sign-in title, or the login link without "logout", or a
\* landing-page marker; the logged-in indicators change nothing.
HasSignInTitle == Contains(HtmlLower, <<"d", "e", "a", "l", "e", "r", " ", "a", "c", "c", "o", "u", "n", "t", " ", "s", "i", "g", "n", " ", "i", "n">>)

HasLoginLink == Contains(HtmlLower, <<"h", "r", "e", "f", "=", "\"", "/", "l", "o", "g", "i", "n", "\"">>)

HasLogout == Contains(HtmlLower, <<"l", "o", "g", "o", "u", "t">>)

HasLandingMarker ==
    Contains(HtmlLower, <<"l", "a", "n", "d", "i", "n", "g", "p", "a", "g", "e">>) \/ Contains(HtmlLower, <<"g", "e", "t", " ", "t", "h", "e", " ", "m", "o", "s", "t", " ", "i", "n", "f", "o", " ", "n", "o", "w">>)

C15_LoginRequired ==
    Called("_is_login_required") =>
        (ex_out[1].last <=>
            HasSignInTitle \/ (HasLoginLink /\ ~HasLogout) \/ HasLandingMarker)

C15_Witness ==
    /\ Called("_is_login_required")
    /\ HasLoginLink /\ HasLogout /\ ~HasSignInTitle /\ ~HasLandingMarker
    /\ Contains(HtmlLower, <<"s", "i", "g", "n", " ", "o", "u", "t">>)
    /\ ex_out[1].last = FALSE

\* C16: the accident count is 0 whenever the document holds a "no accident"
\* phrase, even next to a positive count; it is N for "<N> accidents
\* reported" when there is no such phrase; and it is None, not 0, when the
\* document holds no accident phrase at all.  This is asked of the flat
\* extractor and of the accident count of the full report.
NoAccidentPhrase == WordsIn(HtmlLower, <<<<"n", "o">>, <<"a", "c", "c", "i", "d", "e", "n", "t">>>>)

ReportedCount == RunThenWords(HtmlLower, Digit, <<<<"a", "c", "c", "i", "d", "e", "n", "t", "s">>, <<"r", "e", "p", "o", "r", "t", "e", "d">>>>)

AccidentCountAsClaimed(count) ==
    /\ NoAccidentPhrase => count = Some(0)
    /\ ~NoAccidentPhrase /\ Matched(ReportedCount) =>
           count = Some(int(GroupText(Html, ReportedCount)).val)
    /\ ~Contains(HtmlLower, <<"a", "c", "c", "i", "d", "e", "n", "t">>) => count = None

C16_AccidentCount ==
    /\ Called("_extract_accidents") /\ ex_out[1].last.exc = "" =>
           AccidentCountAsClaimed(ex_out[1].last.val)
    /\ Called("_extract_full_report") /\ ex_out[1].last.exc = "" =>
           AccidentCountAsClaimed(Some(ex_out[1].last.val[1].accidents_reported))

\* C17: every value the mileage extractor returns is a run of digits and
\* commas of the document whose number lies strictly between 100 and
\* 1,000,000; when the first "<number> Last reported odometer reading" of
\* the document has the number 108,487 the result is "108,487"; and the
\* document "50 Last reported odometer reading" gives None.
InBand(mileage) ==
    LET v == int(replace_commas(mileage))
    IN  v.exc = "" /\ 100 < v.val /\ v.val < 1000000

MatchedText(mileage) ==
    /\ \A k \in 1..Len(mileage) : mileage[k] \in DigitComma
    /\ Contains(Html, mileage)

MileageWithinBand ==
    ~IsNone(ex_out[1].last.val) =>
        InBand(ex_out[1].last.val[1]) /\ MatchedText(ex_out[1].last.val[1])

FirstOdometerReading ==
    RunThenWords(HtmlLower, DigitComma,
                 <<<<"l", "a", "s", "t">>, <<"r", "e", "p", "o", "r", "t", "e", "d">>, <<"o", "d", "o", "m", "e", "t", "e", "r">>, <<"r", "e", "a", "d", "i", "n", "g">>>>)

C17_MileageBand ==
    Called("_extract_mileage") =>
        /\ ex_out[1].last.exc = ""
        /\ MileageWithinBand
        /\ Matched(FirstOdometerReading)
             /\ GroupText(Html, FirstOdometerReading) = <<"1", "0", "8", ",", "4", "8", "7">> =>
               ex_out[1].last.val = Some(<<"1", "0", "8", ",", "4", "8", "7">>)
        /\ Html = <<"5", "0", " ", "L", "a", "s", "t", " ", "r", "e", "p", "o", "r", "t", "e", "d", " ", "o", "d", "o", "m", "e", "t", "e", "r", " ", "r", "e", "a", "d", "i", "n", "g">> => ex_out[1].last.val = None

C17_Witness ==
    /\ Called("_extract_mileage")
    /\ Contains(Html, <<"5", "0", " ", "L", "a", "s", "t", " ", "r", "e", "p", "o", "r", "t", "e", "d", " ", "o", "d", "o", "m", "e", "t", "e", "r", " ", "r", "e", "a", "d", "i", "n", "g">>)
    /\ Contains(Html, <<"1", "0", "8", ",", "4", "8", "7", " ", "L", "a", "s", "t", " ", "r", "e", "p", "o", "r", "t", "e", "d", " ", "o", "d", "o", "m", "e", "t", "e", "r", " ", "r", "e", "a", "d", "i", "n", "g">>)
    /\ ex_out[1].last.val = Some(<<"1", "0", "8", ",", "4", "8", "7">>)

\* C17 as first stated: the band, and for every document that holds
\* "108,487 Last reported odometer reading" the result "108,487", for every
\* document that holds "50 Last reported odometer reading" the result None.
C17_Original ==
    Called("_extract_mileage") =>
        /\ MileageWithinBand
        /\ Contains(Html, <<"1", "0", "8", ",", "4", "8", "7", " ", "L", "a", "s", "t", " ", "r", "e", "p", "o", "r", "t", "e", "d", " ", "o", "d", "o", "m", "e", "t", "e", "r", " ", "r", "e", "a", "d", "i", "n", "g">>) =>
               ex_out[1].last.val = Some(<<"1", "0", "8", ",", "4", "8", "7">>)
        /\ Contains(Html, <<"5", "0", " ", "L", "a", "s", "t", " ", "r", "e", "p", "o", "r", "t", "e", "d", " ", "o", "d", "o", "m", "e", "t", "e", "r", " ", "r", "e", "a", "d", "i", "n", "g">>) =>
               ex_out[1].last.val = None

\* C18: the title status is decided by the first of these that the document
\* holds: "Guaranteed No Problem" or a clean-title phrase, Clean; salvage,
\* Salvage; rebuilt, Rebuilt; a generic no-problem or no-issue-reported
\* phrase, Clean; none of them, "Unknown" in the full report and None from
\* the flat extractor.  So "Guaranteed No Problem" is Clean in both, alone
\* and next to "salvage title".
StatusAsClaimed ==
    IF \/ Contains(HtmlLower, <<"g", "u", "a", "r", "a", "n", "t", "e", "e", "d", " ", "n", "o", " ", "p", "r", "o", "b", "l", "e", "m">>)
       \/ Contains(HtmlLower, <<"c", "l", "e", "a", "n", " ", "t", "i", "t", "l", "e">>) THEN <<"C", "l", "e", "a", "n">>
    ELSE IF Contains(HtmlLower, <<"s", "a", "l", "v", "a", "g", "e">>) THEN <<"S", "a", "l", "v", "a", "g", "e">>
    ELSE IF Contains(HtmlLower, <<"r", "e", "b", "u", "i", "l", "t">>) THEN <<"R", "e", "b", "u", "i", "l", "t">>
    ELSE IF \/ Contains(HtmlLower, <<"n", "o", " ", "p", "r", "o", "b", "l", "e", "m">>)
            \/ Contains(HtmlLower, <<"n", "o", " ", "i", "s", "s", "u", "e", "s", " ", "r", "e", "p", "o", "r", "t", "e", "d">>)
            \/ Contains(HtmlLower, <<"n", "o", " ", "i", "s", "s", "u", "e", " ", "r", "e", "p", "o", "r", "t", "e", "d">>) THEN <<"C", "l", "e", "a", "n">>
    ELSE <<"U", "n", "k", "n", "o", "w", "n">>

C18_TitleStatus ==
    /\ Called("_extract_title_status") /\ ex_out[1].last.exc = "" =>
           ex_out[1].last.val =
               (IF StatusAsClaimed = <<"U", "n", "k", "n", "o", "w", "n">> THEN None ELSE Some(StatusAsClaimed))
    /\ Called("_extract_full_report") /\ ex_out[1].last.exc = "" =>
           ex_out[1].last.val[1].title_status = StatusAsClaimed

\* C19: for a document whose text holds "2008 BMW 3 SERIES 328XI",
\* "2 Previous owners", "No accidents or damage reported", "108,487 Last
\* reported odometer reading" and "Guaranteed No Problem", the report of
\* _extract_report_data has year 2008, make BMW, model 3, trim "SERIES 328XI",
\* owners 2, accidents 0, mileage "108,487", title_status "Clean" and no
\* error.
EndToEndDocument ==
    LET text == TextOf(ex_in[1].doc)
    IN  /\ Contains(text, <<"2", "0", "0", "8", " ", "B", "M", "W", " ", "3", " ", "S", "E", "R", "I", "E", "S", " ", "3", "2", "8", "X", "I">>)
        /\ Contains(text, <<"2", " ", "P", "r", "e", "v", "i", "o", "u", "s", " ", "o", "w", "n", "e", "r", "s">>)
        /\ Contains(text, <<"N", "o", " ", "a", "c", "c", "i", "d", "e", "n", "t", "s", " ", "o", "r", " ", "d", "a", "m", "a", "g", "e", " ", "r", "e", "p", "o", "r", "t", "e", "d">>)
        /\ Contains(text, <<"1", "0", "8", ",", "4", "8", "7", " ", "L", "a", "s", "t", " ", "r", "e", "p", "o", "r", "t", "e", "d", " ", "o", "d", "o", "m", "e", "t", "e", "r", " ", "r", "e", "a", "d", "i", "n", "g">>)
        /\ Contains(text, <<"G", "u", "a", "r", "a", "n", "t", "e", "e", "d", " ", "N", "o", " ", "P", "r", "o", "b", "l", "e", "m">>)

C19_EndToEnd ==
    Called("_extract_report_data") /\ EndToEndDocument =>
        /\ ex_out[1].last.year = Some(<<"2", "0", "0", "8">>)
        /\ ex_out[1].last.make = Some(<<"B", "M", "W">>)
        /\ ex_out[1].last.model = Some(<<"3">>)
        /\ ex_out[1].last.trim = Some(<<"S", "E", "R", "I", "E", "S", " ", "3", "2", "8", "X", "I">>)
        /\ ex_out[1].last.owners = Some(2)
        /\ ex_out[1].last.accidents = Some(0)
        /\ ex_out[1].last.mileage = Some(<<"1", "0", "8", ",", "4", "8", "7">>)
        /\ ex_out[1].last.title_status = Some(<<"C", "l", "e", "a", "n">>)
        /\ ex_out[1].last.error = None

\* C20: two runs of an assembler on the same vin and document give equal
\* reports, the order of owners and of detailed_history included.
C20_Idempotent ==
    ~IsNone(ex_out) /\ ex_out[1].runs = 2
    /\ ex_out[1].op \in {"_extract_report_data", "_extract_full_report"} =>
        ex_out[1].first = ex_out[1].last

\* get_reports was entered: the entry point got past its credential gate
BatchStarted ==
    /\ entry_point \in ApiEntries \cup BrowserEntries
    /\ entry_point = "run_api" => gate = "True"
    /\ entry_point = "run_browser" => auth.called /\ auth.ret = "True"
    /\ pc # "start"

\* C21: get_reports of the browser scraper and of the API scraper yields
\* exactly one report per input VIN, in input order, whatever fails for a
\* VIN (invalid VIN, invalid token, login failure, HTTP error status,
\* transport exception, parse error): the reports yielded so far are those
\* of the first VINs of the list, the batch never ends on an exception, and
\* when it ends every VIN has its report.
C21_OneReportPerVin ==
    BatchStarted =>
        /\ pc # "crashed"
        /\ Len(reports) = idx - 1
        /\ \A i \in 1..Len(reports) : reports[i].vin = vins[i]
        /\ pc = "done" => Len(reports) = Len(vins)

\* a document with no recognizable signal: the empty document, or one made
\* of sign-in and sign-out links only
NoSignalElements ==
    {Element("a", <<"/", "l", "o", "g", "i", "n">>, <<"S", "i", "g", "n", " ", "I", "n">>), Element("a", <<"/", "l", "o", "g", "o", "u", "t">>, <<"S", "i", "g", "n", " ", "o", "u", "t">>)}

NoSignalDocument ==
    \A k \in 1..Len(ex_in[1].doc) : ex_in[1].doc[k] \in NoSignalElements

\* the string fields of FullCarfaxReport that _extract_full_report sets,
\* title_status apart
FullStringFields ==
    {"year", "make", "model", "trim", "body_type", "engine", "fuel_type", "drive_type",
     "retail_value", "wholesale_value", "trade_in_value", "private_party_value",
     "last_odometer", "last_state", "total_loss", "structural_damage",
     "airbag_deployment", "odometer_status", "basic_warranty", "recalls"}

FlatAllAbsent ==
    Called("_extract_report_data") /\ NoSignalDocument =>
        /\ \A f \in ReportFields : ex_out[1].last[f] = None
        /\ ex_out[1].last.raw_data = << >>
        /\ ex_out[1].last.error = None

FullAllAbsent ==
    Called("_extract_full_report") /\ NoSignalDocument =>
        /\ ex_out[1].last.exc = ""
        /\ \A f \in FullStringFields : ex_out[1].last.val[1][f] = << >>
        /\ ex_out[1].last.val[1].total_owners = 0
        /\ ex_out[1].last.val[1].accidents_reported = 0
        /\ ex_out[1].last.val[1].service_records_count = 0
        /\ ex_out[1].last.val[1].owners = << >>
        /\ ex_out[1].last.val[1].detailed_history = << >>
        /\ ex_out[1].last.val[1].error = << >>

\* C22 as stated: on an empty document, or one with no recognizable signal,
\* both assemblers return without raising a report whose extracted fields
\* are all absent, title_status of the full report included.
C22_Original ==
    /\ FlatAllAbsent
    /\ FullAllAbsent
    /\ Called("_extract_full_report") /\ NoSignalDocument =>
          ex_out[1].last.val[1].title_status = << >>

\* C22: on an empty document, or one with no recognizable signal, both
\* assemblers return without raising; _extract_report_data returns year,
\* make, model, trim, owners, accidents, service_records, mileage and
\* title_status None, raw_data empty and no error; _extract_full_report
\* returns every extracted string field empty except title_status, which is
\* "Unknown", the three counts 0, and owners and detailed_history empty.
C22_NoSignalAllAbsent ==
    /\ FlatAllAbsent
    /\ FullAllAbsent
    /\ Called("_extract_full_report") /\ NoSignalDocument =>
          ex_out[1].last.val[1].title_status = <<"U", "n", "k", "n", "o", "w", "n">>

\* both kinds of no-signal document have been through an assembler
C22_Witness ==
    /\ NoSignalDocument
    /\ Len(ex_in[1].doc) > 0
    /\ Called("_extract_full_report")
    /\ ex_out[1].last.val[1].title_status = <<"U", "n", "k", "n", "o", "w", "n">>

\* the report of a call of scrape_report holds no extracted field
FullAbsent(report) ==
    /\ report.year = "" /\ report.make = "" /\ report.model = "" /\ report.trim = ""
    /\ report.total_owners = 0
    /\ report.accidents_reported = 0

\* C23: VehicleHistoryScraper.get_report, CarfaxAPIScraper.get_report and
\* FullReportScraper.scrape_report never propagate an exception of the page
\* driver or of the HTTP client (timeout, connection failure, navigation
\* error, failure while closing the browser): every call that such an
\* exception ended returned a report for the requested VIN whose error
\* string is not empty and whose extracted fields are all absent.
C23_TransportErrorsReported ==
    \A i \in 1..Len(reports) :
        calls[i].failure # "" =>
            /\ reports[i].vin = vins[i]
            /\ IF entry_point = "scrape_full_report"
               THEN reports[i].error # "" /\ FullAbsent(reports[i])
               ELSE /\ ~IsNone(reports[i].error)
                    /\ reports[i].error # Some("")
                    /\ AllAbsent(reports[i])

\* ------------------------------------------------------------------------
\* Properties of the price extraction
\* ------------------------------------------------------------------------
HasPriceFragment(k) ==
    \E i \in 1..Len(ex_in[1].doc) : ex_in[1].doc[i] = PriceFragments[k]

\* what the JSON patterns of a field, tried in their order, find in the page
JsonStrategy(field) ==
    first_group([k \in 1..Len(json_keys(field)) |->
                    JsonPrice(HtmlLower, json_keys(field)[k])]
                \o <<JsonValueWithLabel(HtmlLower, field)>>)

\* the price the three strategies give a field, tried in the order JSON,
\* labelled value, amount followed by the label, and after them the first
\* dollar amount of the page for the retail value alone
PriceByStrategy(field) ==
    IF Matched(JsonStrategy(field)) THEN PriceText(Html, JsonStrategy(field))
    ELSE IF Matched(LabelledPrice(HtmlLower, field))
    THEN PriceText(Html, LabelledPrice(HtmlLower, field))
    ELSE IF Matched(PriceThenLabel(HtmlLower, field))
    THEN PriceText(Html, PriceThenLabel(HtmlLower, field))
    ELSE IF field = "retail_value" THEN PriceText(Html, FirstDollarAmount(Html))
    ELSE << >>

\* C24: _extract_all_prices sets each of the four price fields, independently
\* of the other three, from the first strategy that matches in the order JSON
\* pattern, labelled value, amount followed by the label, so that a JSON value
\* wins over a labelled text value of the same page; the retail value alone
\* falls back to the first dollar amount of the page when none of its patterns
\* matched, and the three other fields stay unset in that case.
C24_PriceStrategyOrder ==
    Called("_extract_all_prices") =>
        \A k \in 1..Len(PriceFields) :
            ex_out[1].last[PriceFields[k]] = PriceByStrategy(PriceFields[k])

\* a page with the labelled wholesale value before the JSON wholesale price
\* and nothing else: wholesale is the JSON value, retail falls back to the
\* first dollar amount, the two other fields are unset
C24_Witness ==
    /\ Called("_extract_all_prices")
    /\ ex_in[1].doc = <<PriceFragments[7], PriceFragments[6]>>
    /\ Matched(LabelledPrice(HtmlLower, "wholesale_value"))
    /\ ex_out[1].last.wholesale_value = <<"$", "5", ",", "2", "0", "0">>
    /\ ex_out[1].last.retail_value = <<"$", "5", ",", "0", "0", "0">>
    /\ ex_out[1].last.trade_in_value = << >>
    /\ ex_out[1].last.private_party_value = << >>

\* the call sent a request or opened a browser
Fetched(call) == call.http > 0 \/ call.launched

\* C25: in a batch run the VINs are fetched one after another, and between
\* any two consecutive fetches a pacing delay drawn from MIN_DELAY..MAX_DELAY
\* elapses, whatever the outcome of the earlier fetch: every fetch of a batch
\* that another fetch follows ended with its pacing sleep.
C25_PacedBetweenFetches ==
    BatchStarted =>
        \A i \in 1..(Len(calls) - 1) :
            Fetched(calls[i]) /\ Fetched(calls[i + 1]) =>
                calls[i].delay \in MIN_DELAY..MAX_DELAY

\* ------------------------------------------------------------------------
\* Properties of the credential refresh under threads
\* ------------------------------------------------------------------------
InRefresh(ths) == {w \in Threads : ths[w].line # 0}

\* the reader saw a token whose strings a set_tokens call had stored while
\* its created_at was still the one of the dict
TornToken ==
    /\ observed.seen
    /\ \E w \in Threads : AtLine(w, 158)
    /\ observed.token_data[1].created_at # Some(now)

\* the reader saw a jar that update_from_playwright had changed with the
\* mapping it had before
TornCookies ==
    /\ observed.seen
    /\ \E w \in Threads : AtLine(w, 214)
    /\ observed.cookies_dict # DictOf(observed.cookie_jar)

NearExpiry == HeldNumeric /\ Elapsed(now) >= token_data[1].expires_in[1] - EXPIRY_MARGIN

\* C27: after any sequence of load, set_tokens and passage of time, a read
\* gives an access_token and an Authorization header only if is_valid is true
\* at that instant; with no token held, or with the token within 300 seconds
\* of its expiry, access_token is None and the header is empty; refresh_token
\* is the one of the token held whenever a token is held, and it is held
\* after a load of a token file that returned False because the token was
\* expired.
C27_AccessGatedRefreshKept ==
    tok_obs.seen =>
        /\ ~IsNone(tok_obs.access_token) => tok_obs.is_valid = "True"
        /\ ~IsNone(tok_obs.auth_header) => tok_obs.is_valid = "True"
        /\ (IsNone(token_data) \/ NearExpiry) =>
              IsNone(tok_obs.access_token) /\ IsNone(tok_obs.auth_header)
        /\ tok_obs.refresh_token =
              IF IsNone(token_data) THEN None ELSE Some(token_data[1].refresh_token)
        /\ (tok_call.op = "load" /\ tokens_file.kind = "json") =>
              tok_obs.refresh_token = Some(DictGet(tokens_file.data.refresh_token, ""))

\* a read after a load that returned False for an expired token: no
\* access_token, no header, the refresh_token of the file
C27_Witness ==
    /\ tok_obs.seen
    /\ tok_call.op = "load"
    /\ tok_call.ret = "False"
    /\ NearExpiry
    /\ tok_obs.is_valid = "False"
    /\ IsNone(tok_obs.access_token)
    /\ IsNone(tok_obs.auth_header)
    /\ tok_obs.refresh_token = Some("v0")

\* the response a call of the API scraper's get_report finally held
FinalResponse(call) == IF call.post.kind # "none" THEN call.post ELSE call.get

\* C28: one call of CarfaxAPIScraper.get_report sends at most two HTTP
\* requests, a GET and then a POST only if the GET was answered 404 or 405.
\* The report has parsed fields only when the final response has status 200
\* and a JSON content type; a final 401 gives the token-expired error, a
\* final 404 the VIN-not-found error, any other status than 200 an API error,
\* a 200 without JSON content type the not-JSON error, and in these error
\* cases no field is populated.
C28_GetThenPostOnce ==
    entry_point \in ApiEntries =>
        \A i \in 1..Len(reports) :
            LET call == calls[i]
                final == FinalResponse(calls[i])
            IN  /\ call.http \in 0..2
                /\ call.http >= 1 <=> call.get.kind # "none"
                /\ call.http = 2 <=> call.post.kind # "none"
                /\ call.post.kind # "none" =>
                      call.get.kind = "response" /\ call.get.status \in {404, 405}
                /\ ~AllAbsent(reports[i]) =>
                      final.kind = "response" /\ final.status = 200 /\ final.json
                /\ (final.kind = "response" /\ ~(final.status = 200 /\ final.json)) =>
                      /\ AllAbsent(reports[i])
                      /\ reports[i].error =
                            Some(CASE final.status = 401 -> ERR_TOKEN_REJECTED
                                   [] final.status = 404 -> ERR_VIN_NOT_FOUND
                                   [] final.status = 200 -> ERR_NOT_JSON
                                   [] OTHER -> ApiError(final.status))

\* a call whose GET was answered 404 and whose POST was answered with the
\* report
C28_Witness ==
    /\ entry_point \in ApiEntries
    /\ Len(reports) >= 1
    /\ calls[1].http = 2
    /\ calls[1].get.status = 404
    /\ calls[1].post.status = 200 /\ calls[1].post.json
    /\ IsNone(reports[1].error)
    /\ ~AllAbsent(reports[1])
    /\ ~IsNone(reports[1].year)

\* the outcomes of a login in which _login_in_browser cannot go on
LoginStopped == {"no_credentials", "driver_error"}

\* C29: _login_in_browser returns False only when the credentials are not
\* configured or the page driver raises; with credentials and no exception
\* it returns True whatever the page shows after the submission.  So
\* get_report gives its login-failed report only in those two cases, and
\* otherwise goes on to the VIN entry and the extraction.
C29_LoginAssumedSuccessful ==
    entry_point \in BrowserEntries =>
        \A i \in 1..Len(reports) :
            /\ calls[i].login # "not_required" =>
                  (VehicleHistoryScraper_login_in_browser(calls[i].login)
                      <=> calls[i].login \notin LoginStopped)
            /\ reports[i].error = Some(ERR_LOGIN_FAILED) =>
                  calls[i].login \in LoginStopped
            /\ (calls[i].login \notin LoginStopped \cup {"not_required"}
                  /\ calls[i].failure = "") =>
                  /\ calls[i].slept
                  /\ reports[i] = extract_report_data(vins[i], Doc(FALSE, FoundAll, FALSE))

\* a login after which the page carried no logout marker, followed by the
\* extraction of the report
C29_Witness ==
    /\ entry_point \in BrowserEntries
    /\ Len(reports) >= 1
    /\ calls[1].login = "unverified"
    /\ calls[1].slept
    /\ IsNone(reports[1].error)
    /\ ~AllAbsent(reports[1])

\* ------------------------------------------------------------------------
\* Properties of the dated events
\* ------------------------------------------------------------------------
Text == TextOf(ex_in[1].doc)

\* none of the service-count patterns matches the page
NoServiceCount ==
    /\ ~Matched(RunThenWords(HtmlLower, Digit, <<<<"s", "e", "r", "v", "i", "c", "e">>, <<"h", "i", "s", "t", "o", "r", "y">>, <<"r", "e", "c", "o", "r", "d">>>>))
    /\ ~Matched(RunThenWords(HtmlLower, Digit, <<<<"s", "e", "r", "v", "i", "c", "e">>, <<"r", "e", "c", "o", "r", "d">>>>))
    /\ ~Matched(ServiceThenRecords(HtmlLower))

\* the text that follows a date, the date included: None when the date is
\* not in the text, else at most 500 characters, up to the next date
Following(date) == ContextOf(Text, date)

HasEvent(date) ==
    /\ ~IsNone(Following(date))
    /\ \E k \in 1..Len(event_keywords) :
          Contains(lower(Following(date)[1]), lower(event_keywords[k]))

\* C30: every entry of detailed_history has a non-empty list of events taken
\* from the keyword vocabulary and a date of shape MM/DD/YYYY that occurs in
\* the document, no two entries have the same date, and a date whose
\* following context holds no keyword has no entry; when no service-record
\* count was matched and detailed_history is not empty, service_records_count
\* is the number of its entries.
C30_DetailedHistory ==
    Called("_extract_full_report") /\ ex_out[1].last.exc = "" =>
        LET report == ex_out[1].last.val[1]
            history == ex_out[1].last.val[1].detailed_history
        IN  /\ \A i \in 1..Len(history) :
                  /\ Len(history[i].events) > 0
                  /\ \A e \in 1..Len(history[i].events) :
                        history[i].events[e] \in Range(event_keywords)
                  /\ Len(history[i].date) = 10
                  /\ DateAt(history[i].date, 1)
                  /\ Contains(Html, history[i].date)
                  /\ HasEvent(history[i].date)
                  /\ \A j \in 1..Len(history) : history[j].date = history[i].date => j = i
            /\ \A date \in DatesIn(Html) :
                  ~HasEvent(date) => \A i \in 1..Len(history) : history[i].date # date
            /\ (NoServiceCount /\ Len(history) > 0) =>
                  report.service_records_count = Len(history)

\* a page with a date that no keyword follows and, after it, a dated service
\* event: one entry, counted as the one service record
C30_Witness ==
    /\ Called("_extract_full_report")
    /\ ex_in[1].doc = <<HistoryFragments[4], HistoryFragments[1]>>
    /\ ex_out[1].last.exc = ""
    /\ Cardinality(DatesIn(Html)) = 2
    /\ ~HasEvent(<<"1", "1", "/", "3", "0", "/", "2", "0", "1", "9">>)
    /\ NoServiceCount
    /\ Len(ex_out[1].last.val[1].detailed_history) = 1
    /\ ex_out[1].last.val[1].detailed_history[1].date = <<"0", "3", "/", "1", "5", "/", "2", "0", "2", "0">>
    /\ ex_out[1].last.val[1].detailed_history[1].events = <<<<"V", "e", "h", "i", "c", "l", "e", " ", "s", "e", "r", "v", "i", "c", "e", "d">>>>
    /\ ex_out[1].last.val[1].service_records_count = 1

====
